---- MODULE Spec2Model ----
(***************************************************************************)
(* A model of test-gen-js' static analysis core: the file analyzer         *)
(* (src/src/analyzer/fileAnalyzer.ts), the component analyzer              *)
(* (src/src/analyzer/componentAnalyzer.ts), the type extractor             *)
(* (src/src/parser/typeExtractor.ts) and the part of the test generator    *)
(* (src/src/generator/testGenerator.ts) that depends on the analysis.      *)
(*                                                                         *)
(* Conventions.                                                            *)
(*  - A JavaScript string is a sequence of one-character strings, so that  *)
(*    startsWith, indexing and concatenation are computed, not assumed.    *)
(*  - A syntax node is a record with a "type" field (Babel's node type)    *)
(*    and Babel's field names.  Every child slot holds a SEQUENCE of       *)
(*    nodes: <<>> for an absent child, <<n>> for a single child, and the   *)
(*    list itself for an array slot.                                       *)
(*  - The parser and @babel/traverse are external: a parsed file is given  *)
(*    as the list of its import declarations and the list of the nodes the *)
(*    second traversal's visitors are called on, in traversal order        *)
(*    (nested scopes included).                                            *)
(***************************************************************************)
EXTENDS Naturals, Sequences, FiniteSets, TLC

VARIABLES
    \* --- analysis of one function-like node (componentAnalyzer.ts) ---
    funcNode,      \* the function-like node under analysis
    cpc,           \* position: "idle", "classify", "props", "hooks", "events", "done";
                   \* in analyzeFunction: "params", "returnType", "analyzed"
    isComp,        \* result of isReactComponent
    props,         \* result of extractProps
    hooks,         \* result of extractHooks
    events,        \* result of extractEvents
    children,      \* props.some(p => p.name === 'children')
    \* --- analyzeFile on one parsed file (fileAnalyzer.ts), then generateTest ---
    file,          \* the parsed file: [path, imports, body]
    pc,            \* "idle", "imports", "declarations", "done", "generated"
    cursor,        \* index of the next node the running traversal visits
    imports,       \* const imports: ImportInfo[]
    components,    \* const components: ComponentInfo[]
    functions,     \* const functions: FunctionInfo[]
    analyzedNames, \* const analyzedNames = new Set<string>()
    result,        \* the FileAnalysis analyzeFile returns (<<>> before it returns)
    generated,     \* what generateTest rendered (<<>> before it runs)
    options,       \* the options of the generateTest call (<<>> before it runs)
    outputFile,    \* the content of the test file at outputPath (<<>> when absent)
    firstResult,   \* the FileAnalysis of an earlier run on the same file (<<>> if none)
    \* --- analyzeFunction on one function-like node (functionAnalyzer) ---
    params,        \* result of extractParams
    returnType,    \* result of extractReturnType (<<>> before it runs)
    \* --- extractTypes on one type node (typeExtractor.ts) ---
    typeNode,      \* the argument: <<>> (absent) or <<node>>
    tpc,           \* "idle", "resolve", "resolved"
    typeString,    \* the string extractTypes returned (<<>> before it returns)
    \* --- the generate command and mergeConfigWithOptions (configLoader.ts) ---
    config,        \* what loadConfig returned: <<>> (null) or <<config>>
    argv,          \* the flags on the command line ({} outside the command)
    cliOptions,    \* the options handed to mergeConfigWithOptions (<<>> before)
    mergedOptions, \* what mergeConfigWithOptions returned (<<>> before it returns)
    mpc,           \* "idle", "parse", "merge", "merged"
    \* --- analyzeFile calls in flight at once (fileAnalyzer.ts 27-163) ---
    calls,         \* per call: its file, where it is suspended, what it returned
    frames,        \* per call: <<>> or <<the locals the call declared>>
    heap,          \* the number of record objects created so far
    \* --- scanCommand (fileUtils.ts 165-322) ---
    scanFiles,     \* const files = await glob(...): one entry per matched path
    scanOptions,   \* dryRun and overwrite (<<>> outside the command)
    scanIndex,     \* the loop variable i, counted from 1
    scanResult,    \* const result: ScanResult (<<>> before it is built)
    spc,           \* "idle", "glob", "loop", "returned"
    \* --- watchCommand (init.ts 287-416) ---
    watching,      \* whether the watcher is running
    now,           \* the time, in ticks
    timers,        \* the live timers of the runtime: set by setTimeout, not yet fired or cleared
    timerSeq,      \* the number of setTimeout calls so far
    pendingFiles,  \* const pendingFiles = new Map<string, NodeJS.Timeout>()
    running,       \* the processFile executions in flight
    received,      \* the add/change events received, each with its path and time
    started        \* the processFile calls made, each with its path and time

compVars == <<funcNode, cpc, isComp, props, hooks, events, children>>
fileVars == <<file, pc, cursor, imports, components, functions, analyzedNames,
              result, generated, options, outputFile, firstResult>>
sigVars == <<params, returnType>>
typeVars == <<typeNode, tpc, typeString>>
mergeVars == <<config, argv, cliOptions, mergedOptions, mpc>>
callVars == <<calls, frames, heap>>
scanVars == <<scanFiles, scanOptions, scanIndex, scanResult, spc>>
watchVars == <<watching, now, timers, timerSeq, pendingFiles, running, received, started>>
commandVars == <<mergeVars, callVars, scanVars, watchVars>>
analyzerVars == <<compVars, fileVars, sigVars, typeVars>>
vars == <<analyzerVars, commandVars>>

(***************************************************************************)
(* Bounds of the model.                                                    *)
(***************************************************************************)
MaxDepth == 1      \* nesting depth of the expressions generated for bodies
MaxStmts == 1      \* statements before the return of a generated block body
MaxProps == 2      \* destructured properties, and type-literal members, of a parameter
MaxDecls == 2      \* declaration nodes the second traversal visits in a file
MaxHocDepth == 2   \* nesting depth of the wrapper chains of a file
MaxImports == 2    \* import declarations of a file
MaxTypes == 2      \* member types of a union, an intersection or a tuple
MaxParams == 2     \* parameters of a function whose signature is extracted
MaxScan == 3       \* files matched by the glob of one scan
MaxEvents == 3     \* add/change events the watcher receives
MaxTime == 5       \* ticks the watcher is observed for
TicksPerDelay == 2 \* ticks in the 500 ms of the debounce timer

(***************************************************************************)
(* Strings.                                                                *)
(***************************************************************************)
S_use == <<"u", "s", "e">>
S_useA == <<"u", "s", "e", "A">>
S_useB == <<"u", "s", "e", "B">>
S_us == <<"u", "s">>
S_x == <<"x">>
S_o == <<"o">>
S_c == <<"c">>
S_map == <<"m", "a", "p">>
S_any == <<"a", "n", "y">>

\* String.prototype.startsWith
StartsWith(s, p) == Len(s) >= Len(p) /\ SubSeq(s, 1, Len(p)) = p

\* Array.prototype.join
RECURSIVE Join(_, _)
\* A join that emits the parts last to first.
Join_reversed(parts, sep) ==
    IF parts = <<>> THEN <<>>
    ELSE IF Len(parts) = 1 THEN parts[1]
    ELSE Join(Tail(parts), sep) \o sep \o parts[1]

Join(parts, sep) ==
    IF parts = <<>> THEN <<>>
    ELSE IF Len(parts) = 1 THEN parts[1]
    ELSE parts[1] \o sep \o Join(Tail(parts), sep)

\* Concatenation of a sequence of sequences.
RECURSIVE Flatten(_)
Flatten(ss) == IF ss = <<>> THEN <<>> ELSE ss[1] \o Flatten(Tail(ss))

\* All sequences over S of length at most n.
RECURSIVE SeqsUpTo(_, _)
SeqsUpTo(S, n) ==
    IF n = 0 THEN {<<>>}
    ELSE LET shorter == SeqsUpTo(S, n - 1)
         IN  shorter \cup {Append(s, e) : s \in {t \in shorter : Len(t) = n - 1}, e \in S}

\* Array.from(new Set(...)) of a list: duplicates dropped, first occurrence kept.
RECURSIVE Dedupe(_)
Dedupe(s) ==
    IF s = <<>> THEN <<>>
    ELSE LET init == Dedupe(SubSeq(s, 1, Len(s) - 1))
             last == s[Len(s)]
         IN  IF \E i \in 1..Len(init) : init[i] = last THEN init ELSE Append(init, last)

(***************************************************************************)
(* Syntax nodes (the subset of @babel/types the analysis reads).           *)
(***************************************************************************)
Identifier(name) == [type |-> "Identifier", name |-> name, typeAnnotation |-> <<>>]
NullLiteral == [type |-> "NullLiteral"]
MemberExpression(object, property) ==
    [type |-> "MemberExpression", object |-> <<object>>, property |-> <<property>>]
CallExpression(callee, arguments) ==
    [type |-> "CallExpression", callee |-> <<callee>>, arguments |-> arguments]
ConditionalExpression(test, consequent, alternate) ==
    [type |-> "ConditionalExpression", test |-> <<test>>,
     consequent |-> <<consequent>>, alternate |-> <<alternate>>]
LogicalExpression(left, right) ==
    [type |-> "LogicalExpression", left |-> <<left>>, right |-> <<right>>]
JSXExpressionContainer(expression) ==
    [type |-> "JSXExpressionContainer", expression |-> <<expression>>]
JSXElement(kids) == [type |-> "JSXElement", children |-> kids]
JSXFragment(kids) == [type |-> "JSXFragment", children |-> kids]
ReturnStatement(argument) == [type |-> "ReturnStatement", argument |-> <<argument>>]
ExpressionStatement(expression) ==
    [type |-> "ExpressionStatement", expression |-> <<expression>>]
BlockStatement(body) == [type |-> "BlockStatement", body |-> body]
\* Function nodes are built synchronous and without a return type annotation;
\* Async and Returning give the other forms.
ArrowFunctionExpression(parameters, body) ==
    [type |-> "ArrowFunctionExpression", params |-> parameters, body |-> <<body>>,
     async |-> FALSE, returnType |-> <<>>]
FunctionExpression(parameters, body) ==
    [type |-> "FunctionExpression", params |-> parameters, body |-> <<body>>,
     async |-> FALSE, returnType |-> <<>>]
FunctionDeclaration(id, parameters, body) ==
    [type |-> "FunctionDeclaration", id |-> id, params |-> parameters, body |-> <<body>>,
     async |-> FALSE, returnType |-> <<>>]
Async(func) == [func EXCEPT !.async = TRUE]
Returning(func, annotation) == [func EXCEPT !.returnType = <<annotation>>]
VariableDeclarator(id, init) ==
    [type |-> "VariableDeclarator", id |-> <<id>>, init |-> init]
ExportDefaultDeclaration(declaration) ==
    [type |-> "ExportDefaultDeclaration", declaration |-> <<declaration>>]
NumericLiteral(value) == [type |-> "NumericLiteral", value |-> value]
StringLiteral(value) == [type |-> "StringLiteral", value |-> value]
BooleanLiteral(value) == [type |-> "BooleanLiteral", value |-> value]
ArrayExpression == [type |-> "ArrayExpression"]
ObjectExpression == [type |-> "ObjectExpression"]
\* Patterns of a parameter list.
IdentifierT(name, annotation) ==
    [type |-> "Identifier", name |-> name, typeAnnotation |-> annotation]
AssignmentPattern(left, right) ==
    [type |-> "AssignmentPattern", left |-> <<left>>, right |-> <<right>>]
ObjectProperty(key, value) ==
    [type |-> "ObjectProperty", key |-> <<key>>, value |-> <<value>>]
RestElement(argument) ==
    [type |-> "RestElement", argument |-> <<argument>>, typeAnnotation |-> <<>>]
ArrayPattern(elements) ==
    [type |-> "ArrayPattern", elements |-> elements, typeAnnotation |-> <<>>]
\* A parameter node with its type annotation.
Annotated(node, annotation) == [node EXCEPT !.typeAnnotation = <<annotation>>]
ObjectPattern(properties, annotation) ==
    [type |-> "ObjectPattern", properties |-> properties, typeAnnotation |-> annotation]
\* TypeScript type nodes.
TSParenthesizedType(annotated) ==
    [type |-> "TSParenthesizedType", typeAnnotation |-> <<annotated>>]
TSTypeOperator(operator, annotated) ==
    [type |-> "TSTypeOperator", operator |-> operator, typeAnnotation |-> <<annotated>>]
BigIntLiteral(value) == [type |-> "BigIntLiteral", value |-> value]
TemplateLiteral(raw) == [type |-> "TemplateLiteral", raw |-> raw]
UnaryExpression(operator, argument) ==
    [type |-> "UnaryExpression", operator |-> operator, argument |-> <<argument>>]
TSTypeAnnotation(annotated) ==
    [type |-> "TSTypeAnnotation", typeAnnotation |-> <<annotated>>]
TSKeyword(kind) == [type |-> kind]
TSArrayType(elementType) == [type |-> "TSArrayType", elementType |-> <<elementType>>]
TSQualifiedName(left, right) ==
    [type |-> "TSQualifiedName", left |-> <<left>>, right |-> <<right>>]
TSTypeReference(typeName) == [type |-> "TSTypeReference", typeName |-> <<typeName>>]
TSUnionType(types) == [type |-> "TSUnionType", types |-> types]
TSIntersectionType(types) == [type |-> "TSIntersectionType", types |-> types]
TSLiteralType(literal) == [type |-> "TSLiteralType", literal |-> <<literal>>]
TSFunctionType == [type |-> "TSFunctionType"]
TSTupleType(elementTypes) == [type |-> "TSTupleType", elementTypes |-> elementTypes]
TSPropertySignature(key, annotation, optional) ==
    [type |-> "TSPropertySignature", key |-> <<key>>, typeAnnotation |-> annotation,
     optional |-> optional]
TSMethodSignature(key) == [type |-> "TSMethodSignature", key |-> <<key>>]
TSTypeLiteral(members) == [type |-> "TSTypeLiteral", members |-> members]

\* t.VISITOR_KEYS: the child slots of each node type, in Babel's order.
VISITOR_KEYS(type) ==
    CASE type = "Identifier" -> <<"typeAnnotation">>
      [] type = "MemberExpression" -> <<"object", "property">>
      [] type = "CallExpression" -> <<"callee", "arguments">>
      [] type = "ConditionalExpression" -> <<"test", "consequent", "alternate">>
      [] type = "LogicalExpression" -> <<"left", "right">>
      [] type = "JSXExpressionContainer" -> <<"expression">>
      [] type = "JSXElement" -> <<"children">>
      [] type = "JSXFragment" -> <<"children">>
      [] type = "ReturnStatement" -> <<"argument">>
      [] type = "ExpressionStatement" -> <<"expression">>
      [] type = "BlockStatement" -> <<"body">>
      [] type = "ArrowFunctionExpression" -> <<"params", "body", "returnType">>
      [] type = "FunctionExpression" -> <<"params", "body", "returnType">>
      [] type = "FunctionDeclaration" -> <<"id", "params", "body", "returnType">>
      [] type = "VariableDeclarator" -> <<"id", "init">>
      [] type = "ExportDefaultDeclaration" -> <<"declaration">>
      [] type = "AssignmentPattern" -> <<"left", "right">>
      [] type = "ObjectProperty" -> <<"key", "value">>
      [] type = "RestElement" -> <<"argument", "typeAnnotation">>
      [] type = "ArrayPattern" -> <<"elements", "typeAnnotation">>
      [] type = "ObjectPattern" -> <<"properties", "typeAnnotation">>
      [] type = "TSTypeAnnotation" -> <<"typeAnnotation">>
      [] type = "TSTypeLiteral" -> <<"members">>
      [] type = "TSPropertySignature" -> <<"key", "typeAnnotation">>
      [] OTHER -> <<>>

\* The child nodes the generic descent visits, in order: for each visitor key,
\* the slot's node or the slot's array elements.
ChildNodes(node) ==
    LET keys == VISITOR_KEYS(node.type)
    IN  Flatten([i \in 1..Len(keys) |-> node[keys[i]]])

isJSX(node) == node.type \in {"JSXElement", "JSXFragment"}
isFunctionLike(node) ==
    node.type \in {"ArrowFunctionExpression", "FunctionExpression"}

(***************************************************************************)
(* typeExtractor.ts                                                        *)
(***************************************************************************)
S_string == <<"s", "t", "r", "i", "n", "g">>
S_number == <<"n", "u", "m", "b", "e", "r">>
S_boolean == <<"b", "o", "o", "l", "e", "a", "n">>
S_void == <<"v", "o", "i", "d">>
S_null == <<"n", "u", "l", "l">>
S_undefined == <<"u", "n", "d", "e", "f", "i", "n", "e", "d">>
S_never == <<"n", "e", "v", "e", "r">>
S_unknown == <<"u", "n", "k", "n", "o", "w", "n">>
S_object == <<"o", "b", "j", "e", "c", "t">>
S_literal == <<"l", "i", "t", "e", "r", "a", "l">>
S_Function == <<"F", "u", "n", "c", "t", "i", "o", "n">>
S_true == <<"t", "r", "u", "e">>
S_false == <<"f", "a", "l", "s", "e">>

\* String(n) of a non-negative integer.
Digit(d) == <<"0", "1", "2", "3", "4", "5", "6", "7", "8", "9">>[d + 1]
RECURSIVE NumberToString(_)
NumberToString(n) ==
    IF n < 10 THEN <<Digit(n)>> ELSE Append(NumberToString(n \div 10), Digit(n % 10))
\* A rendering of a boolean that names the other one.
BooleanToString_negated(b) == IF b THEN S_false ELSE S_true

\* String(b) of a boolean.
BooleanToString(b) == IF b THEN S_true ELSE S_false

RECURSIVE extractQualifiedName(_)
extractQualifiedName(node) ==
    LET left == node.left[1]
        parts == IF left.type = "Identifier" THEN <<left.name>>
                 ELSE IF left.type = "TSQualifiedName" THEN <<extractQualifiedName(left)>>
                 ELSE <<>>
    IN  Join(Append(parts, node.right[1].name), <<".">>)

\* extractTypes(node); the argument is a slot: <<>> stands for null/undefined.
RECURSIVE extractTypes(_)
\* extractTypes with the fallback of the reference rule in place of its own.
extractTypes_unknownFallback(slot) ==
    IF slot = <<>> THEN S_any
    ELSE LET node == slot[1] IN
      CASE node.type = "TSTypeAnnotation" -> extractTypes(node.typeAnnotation)
        [] node.type = "TSStringKeyword" -> S_string
        [] node.type = "TSNumberKeyword" -> S_number
        [] node.type = "TSBooleanKeyword" -> S_boolean
        [] node.type = "TSAnyKeyword" -> S_any
        [] node.type = "TSVoidKeyword" -> S_void
        [] node.type = "TSNullKeyword" -> S_null
        [] node.type = "TSUndefinedKeyword" -> S_undefined
        [] node.type = "TSNeverKeyword" -> S_never
        [] node.type = "TSUnknownKeyword" -> S_unknown
        [] node.type = "TSObjectKeyword" -> S_object
        [] node.type = "TSArrayType" -> extractTypes(node.elementType) \o <<"[", "]">>
        [] node.type = "TSTypeReference" ->
             IF node.typeName[1].type = "Identifier" THEN node.typeName[1].name
             ELSE IF node.typeName[1].type = "TSQualifiedName"
                  THEN extractQualifiedName(node.typeName[1])
             ELSE S_unknown
        [] node.type = "TSUnionType" ->
             Join([i \in 1..Len(node.types) |-> extractTypes(<<node.types[i]>>)],
                  <<" ", "|", " ">>)
        [] node.type = "TSIntersectionType" ->
             Join([i \in 1..Len(node.types) |-> extractTypes(<<node.types[i]>>)],
                  <<" ", "&", " ">>)
        [] node.type = "TSLiteralType" ->
             LET lit == node.literal[1] IN
             IF lit.type = "StringLiteral" THEN <<"'">> \o lit.value \o <<"'">>
             ELSE IF lit.type = "NumericLiteral" THEN NumberToString(lit.value)
             ELSE IF lit.type = "BooleanLiteral" THEN BooleanToString(lit.value)
             ELSE S_literal
        [] node.type = "TSFunctionType" -> S_Function
        [] node.type = "TSTupleType" ->
             <<"[">> \o Join([i \in 1..Len(node.elementTypes) |->
                                 extractTypes(<<node.elementTypes[i]>>)], <<",", " ">>)
                     \o <<"]">>
        [] node.type = "TSTypeLiteral" -> S_object
        [] OTHER -> S_unknown

extractTypes(slot) ==
    IF slot = <<>> THEN S_any
    ELSE LET node == slot[1] IN
      CASE node.type = "TSTypeAnnotation" -> extractTypes(node.typeAnnotation)
        [] node.type = "TSStringKeyword" -> S_string
        [] node.type = "TSNumberKeyword" -> S_number
        [] node.type = "TSBooleanKeyword" -> S_boolean
        [] node.type = "TSAnyKeyword" -> S_any
        [] node.type = "TSVoidKeyword" -> S_void
        [] node.type = "TSNullKeyword" -> S_null
        [] node.type = "TSUndefinedKeyword" -> S_undefined
        [] node.type = "TSNeverKeyword" -> S_never
        [] node.type = "TSUnknownKeyword" -> S_unknown
        [] node.type = "TSObjectKeyword" -> S_object
        [] node.type = "TSArrayType" -> extractTypes(node.elementType) \o <<"[", "]">>
        [] node.type = "TSTypeReference" ->
             IF node.typeName[1].type = "Identifier" THEN node.typeName[1].name
             ELSE IF node.typeName[1].type = "TSQualifiedName"
                  THEN extractQualifiedName(node.typeName[1])
             ELSE S_unknown
        [] node.type = "TSUnionType" ->
             Join([i \in 1..Len(node.types) |-> extractTypes(<<node.types[i]>>)],
                  <<" ", "|", " ">>)
        [] node.type = "TSIntersectionType" ->
             Join([i \in 1..Len(node.types) |-> extractTypes(<<node.types[i]>>)],
                  <<" ", "&", " ">>)
        [] node.type = "TSLiteralType" ->
             LET lit == node.literal[1] IN
             IF lit.type = "StringLiteral" THEN <<"'">> \o lit.value \o <<"'">>
             ELSE IF lit.type = "NumericLiteral" THEN NumberToString(lit.value)
             ELSE IF lit.type = "BooleanLiteral" THEN BooleanToString(lit.value)
             ELSE S_literal
        [] node.type = "TSFunctionType" -> S_Function
        [] node.type = "TSTupleType" ->
             <<"[">> \o Join([i \in 1..Len(node.elementTypes) |->
                                 extractTypes(<<node.elementTypes[i]>>)], <<",", " ">>)
                     \o <<"]">>
        [] node.type = "TSTypeLiteral" -> S_object
        [] OTHER -> S_any

(***************************************************************************)
(* componentAnalyzer.ts                                                    *)
(***************************************************************************)
getDefaultValueString(node) ==
    CASE node.type = "StringLiteral" -> <<"'">> \o node.value \o <<"'">>
      [] node.type = "NumericLiteral" -> NumberToString(node.value)
      [] node.type = "BooleanLiteral" -> BooleanToString(node.value)
      [] node.type = "NullLiteral" -> S_null
      [] node.type = "Identifier" /\ node.name = S_undefined -> S_undefined
      [] node.type = "ArrayExpression" -> <<"[", "]">>
      [] node.type = "ObjectExpression" -> <<"{", "}">>
      [] OTHER -> S_undefined

\* One pass of the loop over firstParam.properties (componentAnalyzer.ts 127-148).
PropFromProperty(prop) ==
    LET value == prop.value[1]
        base == [name |-> prop.key[1].name,
                 type |-> IF value.type = "Identifier" /\ value.typeAnnotation # <<>>
                          THEN extractTypes(value.typeAnnotation) ELSE S_any,
                 required |-> value.type # "AssignmentPattern"]
    IN  IF value.type = "AssignmentPattern"
        THEN [name |-> base.name, type |-> base.type, required |-> base.required,
              defaultValue |-> getDefaultValueString(value.right[1])]
        ELSE base

RECURSIVE DestructuredProps(_)
DestructuredProps(properties) ==
    IF properties = <<>> THEN <<>>
    ELSE LET prop == properties[1]
             rest == DestructuredProps(Tail(properties))
         IN  IF prop.type = "ObjectProperty" /\ prop.key[1].type = "Identifier"
             THEN <<PropFromProperty(prop)>> \o rest
             ELSE rest

\* props.find((p) => p.name === name): the index of the first match, 0 if none.
FindProp(ps, name) ==
    IF \E i \in 1..Len(ps) : ps[i].name = name
    THEN CHOOSE i \in 1..Len(ps) :
             ps[i].name = name /\ \A j \in 1..(i - 1) : ps[j].name # name
    ELSE 0

\* One pass of the loop over typeNode.members for a destructured parameter
\* (componentAnalyzer.ts 154-165).
RefineWithMember(ps, member) ==
    IF member.type = "TSPropertySignature" /\ member.key[1].type = "Identifier"
    THEN LET i == FindProp(ps, member.key[1].name) IN
         IF i # 0 /\ member.typeAnnotation # <<>>
         THEN [ps EXCEPT ![i].type = extractTypes(member.typeAnnotation),
                         ![i].required = ~member.optional]
         ELSE ps
    ELSE ps

RECURSIVE RefineWithMembers(_, _)
RefineWithMembers(ps, members) ==
    IF members = <<>> THEN ps
    ELSE RefineWithMembers(RefineWithMember(ps, members[1]), Tail(members))

\* The loop over typeNode.members for a bare-identifier parameter
\* (componentAnalyzer.ts 177-188).
RECURSIVE MemberProps(_)
MemberProps(members) ==
    IF members = <<>> THEN <<>>
    ELSE LET member == members[1]
             rest == MemberProps(Tail(members))
         IN  IF member.type = "TSPropertySignature" /\ member.key[1].type = "Identifier"
             THEN <<[name |-> member.key[1].name,
                     type |-> extractTypes(member.typeAnnotation),
                     required |-> ~member.optional]>> \o rest
             ELSE rest

\* The members of the parameter's annotation when it is a TSTypeAnnotation of a
\* TSTypeLiteral, <<>> otherwise.
TypeLiteralMembers(param) ==
    IF param.typeAnnotation # <<>>
       /\ param.typeAnnotation[1].type = "TSTypeAnnotation"
       /\ param.typeAnnotation[1].typeAnnotation[1].type = "TSTypeLiteral"
    THEN param.typeAnnotation[1].typeAnnotation[1].members
    ELSE <<>>

extractPropsFromFunc(node) ==
    IF node.params = <<>> THEN <<>>
    ELSE LET firstParam == node.params[1] IN
         IF firstParam.type = "ObjectPattern"
         THEN RefineWithMembers(DestructuredProps(firstParam.properties),
                                TypeLiteralMembers(firstParam))
         ELSE IF firstParam.type = "Identifier"
         THEN MemberProps(TypeLiteralMembers(firstParam))
         ELSE <<>>

extractProps(node) == extractPropsFromFunc(node)

\* Set.prototype.add on an insertion-ordered set kept as a list.
SetAdd(set, x) == IF \E i \in 1..Len(set) : set[i] = x THEN set ELSE Append(set, x)

RECURSIVE findHooks(_, _)
RECURSIVE findHooksInAll(_, _)
findHooks(node, found) ==
    LET here == IF node.type = "CallExpression"
                   /\ node.callee[1].type = "Identifier"
                   /\ StartsWith(node.callee[1].name, S_use)
                THEN SetAdd(found, node.callee[1].name)
                ELSE found
    IN  findHooksInAll(ChildNodes(node), here)
findHooksInAll(nodes, found) ==
    IF nodes = <<>> THEN found
    ELSE findHooksInAll(Tail(nodes), findHooks(nodes[1], found))

extractHooks(node) ==
    IF node.body[1].type = "BlockStatement" THEN findHooks(node.body[1], <<>>) ELSE <<>>

\* String.prototype.toUpperCase on one character: letters a-z are mapped, every
\* other character is its own upper case.
LowerLetters == <<"a", "b", "c", "d", "e", "f", "g", "h", "i", "j", "k", "l", "m",
                  "n", "o", "p", "q", "r", "s", "t", "u", "v", "w", "x", "y", "z">>
UpperLetters == <<"A", "B", "C", "D", "E", "F", "G", "H", "I", "J", "K", "L", "M",
                  "N", "O", "P", "Q", "R", "S", "T", "U", "V", "W", "X", "Y", "Z">>
toUpperCase(ch) ==
    IF \E i \in 1..26 : LowerLetters[i] = ch
    THEN UpperLetters[CHOOSE i \in 1..26 : LowerLetters[i] = ch]
    ELSE ch

isEventName(name) ==
    /\ StartsWith(name, <<"o", "n">>)
    /\ Len(name) > 2
    /\ name[3] = toUpperCase(name[3])

RECURSIVE extractEventsFromProps(_)
extractEventsFromProps(ps) ==
    IF ps = <<>> THEN <<>>
    ELSE LET init == extractEventsFromProps(SubSeq(ps, 1, Len(ps) - 1))
             last == ps[Len(ps)]
         IN  IF isEventName(last.name) THEN SetAdd(init, last.name) ELSE init

extractEvents(node) == extractEventsFromProps(extractProps(node))

S_children == <<"c", "h", "i", "l", "d", "r", "e", "n">>
acceptsChildren(ps) == \E i \in 1..Len(ps) : ps[i].name = S_children

(***************************************************************************)
(* fileAnalyzer.ts: the component classifier.                              *)
(***************************************************************************)
RECURSIVE containsJSX(_)
containsJSX(node) ==
    \/ isJSX(node)
    \/ LET kids == ChildNodes(node) IN \E i \in 1..Len(kids) : containsJSX(kids[i])

isReactComponent(node) ==
    IF isJSX(node.body[1]) THEN TRUE
    ELSE IF node.body[1].type = "BlockStatement" THEN containsJSX(node.body[1])
    ELSE FALSE

(***************************************************************************)
(* Inputs: function-like nodes.                                            *)
(***************************************************************************)
S_name == <<"n", "a", "m", "e">>
S_age == <<"a", "g", "e">>
S_ref == <<"r", "e", "f">>
S_props == <<"p", "r", "o", "p", "s">>
S_Props == <<"P", "r", "o", "p", "s">>
S_rest == <<"r", "e", "s", "t">>

Call0(callee) == CallExpression(callee, <<>>)

\* Leaves of the generated bodies: x, useA(), useB(), us(), o.useA(), <div/>, <></>.
Atoms ==
    {Identifier(S_x),
     Call0(Identifier(S_useA)),
     Call0(Identifier(S_useB)),
     Call0(Identifier(S_us)),
     Call0(MemberExpression(Identifier(S_o), Identifier(S_useA))),
     JSXElement(<<>>),
     JSXFragment(<<>>)}

\* One more level around e: c ? e : null, c && e, x.map(() => e), <div>{e}</div>,
\* useB(e).
Wrappings(e) ==
    {ConditionalExpression(Identifier(S_c), e, NullLiteral),
     LogicalExpression(Identifier(S_c), e),
     CallExpression(MemberExpression(Identifier(S_x), Identifier(S_map)),
                    <<ArrowFunctionExpression(<<>>, e)>>),
     JSXElement(<<JSXExpressionContainer(e)>>),
     CallExpression(Identifier(S_useB), <<e>>)}

RECURSIVE Exprs(_)
Exprs(depth) ==
    IF depth = 0 THEN Atoms
    ELSE Atoms \cup UNION {Wrappings(e) : e \in Exprs(depth - 1)}

HookStatements ==
    {ExpressionStatement(Call0(Identifier(S_useA))),
     ExpressionStatement(Call0(Identifier(S_useB)))}

Blocks ==
    {BlockStatement(Append(stmts, ReturnStatement(e))) :
        stmts \in SeqsUpTo(HookStatements, MaxStmts), e \in Exprs(MaxDepth)}

\* Functions that differ in their bodies.
BodyFuncs ==
    {FunctionDeclaration(<<Identifier(S_x)>>, <<>>, b) : b \in Blocks}
    \cup {FunctionExpression(<<>>, b) : b \in Blocks}
    \cup {ArrowFunctionExpression(<<>>, b) : b \in Blocks \cup Exprs(MaxDepth)}

PropNames == {S_name, S_age}

\* A destructured property: n, n = 0, n: x (the key n bound to the local x), or
\* ...rest.
PatternProperties ==
    {ObjectProperty(Identifier(n), Identifier(n)) : n \in PropNames}
    \cup {ObjectProperty(Identifier(n), AssignmentPattern(Identifier(n), NumericLiteral(0))) :
            n \in PropNames}
    \cup {ObjectProperty(Identifier(n), Identifier(S_x)) : n \in PropNames}
    \cup {RestElement(Identifier(S_rest))}

\* The local name a destructured property binds.
BoundName(prop) ==
    IF prop.type = "RestElement" THEN prop.argument[1].name
    ELSE IF prop.value[1].type = "AssignmentPattern" THEN prop.value[1].left[1].name
    ELSE prop.value[1].name

\* A parseable pattern binds no local name twice and has its rest element last.
WellFormedPattern(ps) ==
    /\ \A i, j \in 1..Len(ps) : i # j => BoundName(ps[i]) # BoundName(ps[j])
    /\ \A i \in 1..Len(ps) : ps[i].type = "RestElement" => i = Len(ps)

\* A type-literal member: n: number, n?: number, n? (no annotation), or a method.
TypeMembers ==
    {TSPropertySignature(Identifier(n), <<TSTypeAnnotation(TSKeyword("TSNumberKeyword"))>>, o) :
        n \in PropNames, o \in BOOLEAN}
    \cup {TSPropertySignature(Identifier(n), <<>>, TRUE) : n \in PropNames}

ParamAnnotations ==
    {<<>>, <<TSTypeAnnotation(TSTypeReference(Identifier(S_Props)))>>}
    \cup {<<TSTypeAnnotation(TSTypeLiteral(ms))>> : ms \in SeqsUpTo(TypeMembers, MaxProps)}

FirstParams ==
    {ObjectPattern(ps, a) :
        ps \in {q \in SeqsUpTo(PatternProperties, MaxProps) : WellFormedPattern(q)},
        a \in ParamAnnotations}
    \cup {IdentifierT(S_props, a) : a \in ParamAnnotations}

\* Functions that differ in their parameters: (first) => <div/> and
\* (first, ref) => <div/>.
PropFuncs ==
    {ArrowFunctionExpression(<<>>, JSXElement(<<>>))}
    \cup {ArrowFunctionExpression(<<p>>, JSXElement(<<>>)) : p \in FirstParams}
    \cup {ArrowFunctionExpression(<<p, Identifier(S_ref)>>, JSXElement(<<>>)) :
            p \in {q \in FirstParams : q.type = "Identifier" \/ Len(q.properties) <= 1}}

S_onClick == <<"o", "n", "C", "l", "i", "c", "k">>
S_once == <<"o", "n", "c", "e">>
S_on == <<"o", "n">>
S_on_x == <<"o", "n", "_", "x">>
HandlerNames == {S_onClick, S_once, S_on, S_on_x}

\* Destructured properties named like handlers: n, and n: x.
HandlerProperties ==
    {ObjectProperty(Identifier(n), Identifier(n)) : n \in HandlerNames}
    \cup {ObjectProperty(Identifier(n), Identifier(S_x)) : n \in HandlerNames}

\* Functions that differ in the names of their props: ({ onClick, once }) => <div/>.
EventFuncs ==
    {ArrowFunctionExpression(<<ObjectPattern(ps, <<>>)>>, JSXElement(<<>>)) :
        ps \in {q \in SeqsUpTo(HandlerProperties, MaxProps) : WellFormedPattern(q)}}

(***************************************************************************)
(* The analysis of one function-like node: the classifier, then the steps  *)
(* of analyzeComponent.                                                    *)
(***************************************************************************)
FileIdle ==
    /\ file = <<>>
    /\ pc = "idle"
    /\ cursor = 0
    /\ imports = <<>>
    /\ components = <<>>
    /\ functions = <<>>
    /\ analyzedNames = {}
    /\ result = <<>>
    /\ generated = <<>>
    /\ options = <<>>
    /\ outputFile = <<>>
    /\ firstResult = <<>>

SignatureIdle == params = <<>> /\ returnType = <<>>
ResolverIdle == typeNode = <<>> /\ tpc = "idle" /\ typeString = <<>>
MergeIdle ==
    /\ config = <<>>
    /\ argv = {}
    /\ cliOptions = <<>>
    /\ mergedOptions = <<>>
    /\ mpc = "idle"

CallsIdle == calls = <<>> /\ frames = <<>> /\ heap = 0

ScanIdle ==
    /\ scanFiles = <<>>
    /\ scanOptions = <<>>
    /\ scanIndex = 0
    /\ scanResult = <<>>
    /\ spc = "idle"

WatchedPaths == {"Button.tsx", "utils.ts"}

\* new Map(): no path has an entry.
NewMap == [path \in WatchedPaths |-> <<>>]

WatchIdle ==
    /\ watching = FALSE
    /\ now = 0
    /\ timers = {}
    /\ timerSeq = 0
    /\ pendingFiles = NewMap
    /\ running = {}
    /\ received = <<>>
    /\ started = <<>>

CommandsIdle == MergeIdle /\ CallsIdle /\ ScanIdle /\ WatchIdle

InitComponent ==
    /\ FileIdle
    /\ CommandsIdle
    /\ SignatureIdle
    /\ ResolverIdle
    /\ funcNode \in BodyFuncs \cup PropFuncs \cup EventFuncs
    /\ cpc = "classify"
    /\ isComp = FALSE
    /\ props = <<>>
    /\ hooks = <<>>
    /\ events = <<>>
    /\ children = FALSE

Classify ==
    /\ cpc = "classify"
    /\ isComp' = isReactComponent(funcNode)
    /\ cpc' = IF isComp' THEN "props" ELSE "done"
    /\ UNCHANGED <<funcNode, props, hooks, events, children, fileVars, sigVars, typeVars, commandVars>>

ExtractProps ==
    /\ cpc = "props"
    /\ props' = extractProps(funcNode)
    /\ cpc' = "hooks"
    /\ UNCHANGED <<funcNode, isComp, hooks, events, children, fileVars, sigVars, typeVars, commandVars>>

ExtractHooks ==
    /\ cpc = "hooks"
    /\ hooks' = extractHooks(funcNode)
    /\ cpc' = "events"
    /\ UNCHANGED <<funcNode, isComp, props, events, children, fileVars, sigVars, typeVars, commandVars>>

ExtractEvents ==
    /\ cpc = "events"
    /\ events' = extractEvents(funcNode)
    /\ children' = acceptsChildren(props)
    /\ cpc' = "done"
    /\ UNCHANGED <<funcNode, isComp, props, hooks, fileVars, sigVars, typeVars, commandVars>>

NextComponent == Classify \/ ExtractProps \/ ExtractHooks \/ ExtractEvents

SpecComponent == InitComponent /\ [][NextComponent]_vars

(***************************************************************************)
(* Reference notions the claims are stated with.                           *)
(***************************************************************************)
\* Every node of the tree under a node, the node first, in source order.
RECURSIVE Preorder(_)
Preorder(node) ==
    LET kids == ChildNodes(node)
    IN  <<node>> \o Flatten([i \in 1..Len(kids) |-> Preorder(kids[i])])

\* The body is, or contains anywhere, a JSX element or fragment.
HasJSXAnywhere(fn) ==
    LET nodes == Preorder(fn.body[1]) IN \E i \in 1..Len(nodes) : isJSX(nodes[i])

IsHookCall(node) ==
    /\ node.type = "CallExpression"
    /\ node.callee[1].type = "Identifier"
    /\ StartsWith(node.callee[1].name, S_use)

RECURSIVE HookCallNames(_)
HookCallNames(nodes) ==
    IF nodes = <<>> THEN <<>>
    ELSE (IF IsHookCall(nodes[1]) THEN <<nodes[1].callee[1].name>> ELSE <<>>)
         \o HookCallNames(Tail(nodes))

\* The callee names of the hook calls anywhere in the body, first-seen order,
\* without duplicates.
HooksOfBody(fn) == Dedupe(HookCallNames(Preorder(fn.body[1])))

Classified == cpc \in {"props", "hooks", "events", "done"}
PropsExtracted == cpc \in {"hooks", "events", "done"}
HooksExtracted == cpc \in {"events", "done"}

\* C3: isReactComponent is true exactly when the function's body is or contains,
\* anywhere in its tree, a JSX element or fragment.
C3_ClassifierIffJSXAnywhere ==
    Classified => (isComp <=> HasJSXAnywhere(funcNode))

\* C10: for every component, block-bodied or expression-bodied, hooks is the
\* duplicate-free first-seen list of the bare-identifier callees starting with
\* "use" of all calls anywhere in the body.
C10_HooksAreAllUseCalls ==
    (HooksExtracted /\ isComp) => hooks = HooksOfBody(funcNode)

\* The identifier-keyed properties of a destructuring pattern, in order.
RECURSIVE IdentifierKeyed(_)
IdentifierKeyed(properties) ==
    IF properties = <<>> THEN <<>>
    ELSE (IF properties[1].type = "ObjectProperty" /\ properties[1].key[1].type = "Identifier"
          THEN <<properties[1]>> ELSE <<>>) \o IdentifierKeyed(Tail(properties))

\* The identifier-keyed property signatures of a type literal, in order.
RECURSIVE NamedMembers(_)
NamedMembers(members) ==
    IF members = <<>> THEN <<>>
    ELSE (IF members[1].type = "TSPropertySignature" /\ members[1].key[1].type = "Identifier"
          THEN <<members[1]>> ELSE <<>>) \o NamedMembers(Tail(members))

HasFirstParam(fn) == fn.params # <<>>
DestructuredWithTypeLiteral(fn) ==
    /\ HasFirstParam(fn)
    /\ fn.params[1].type = "ObjectPattern"
    /\ fn.params[1].typeAnnotation # <<>>
    /\ fn.params[1].typeAnnotation[1].typeAnnotation[1].type = "TSTypeLiteral"

\* C8: for a destructured first parameter annotated with a type literal, there
\* is one prop per identifier-keyed property, in order, and every prop whose name
\* matches a member has the type and the required flag of the (last such) member.
C8_TypeLiteralOverwriteAlwaysWins ==
    (PropsExtracted /\ DestructuredWithTypeLiteral(funcNode)) =>
        LET keyed == IdentifierKeyed(funcNode.params[1].properties)
            members == NamedMembers(funcNode.params[1].typeAnnotation[1].typeAnnotation[1].members)
            Matches(i) == {m \in 1..Len(members) : members[m].key[1].name = props[i].name}
            Last(i) == members[CHOOSE m \in Matches(i) : \A k \in Matches(i) : k <= m]
        IN  /\ Len(props) = Len(keyed)
            /\ \A i \in 1..Len(props) :
                 /\ props[i].name = keyed[i].key[1].name
                 /\ Matches(i) # {} =>
                      /\ props[i].type = extractTypes(Last(i).typeAnnotation)
                      /\ props[i].required = ~Last(i).optional

\* C9: a prop destructured with a default value has required = false and a
\* defaultValue, whatever a type literal on the parameter declares.
C9_DefaultKeepsNotRequired ==
    (PropsExtracted /\ HasFirstParam(funcNode) /\ funcNode.params[1].type = "ObjectPattern") =>
        LET keyed == IdentifierKeyed(funcNode.params[1].properties)
        IN  \A i \in 1..Len(keyed) :
               keyed[i].value[1].type = "AssignmentPattern" =>
                   /\ i <= Len(props)
                   /\ props[i].required = FALSE
                   /\ "defaultValue" \in DOMAIN props[i]

\* The handler names of the specification: "on", then an upper-case letter.
IsHandlerName(name) ==
    /\ Len(name) > 2
    /\ name[1] = "o" /\ name[2] = "n"
    /\ \E i \in 1..26 : UpperLetters[i] = name[3]

PropNamesOf(ps) == [i \in 1..Len(ps) |-> ps[i].name]

\* C11: the events of a component record are exactly the prop names, in prop
\* order, that start with "on", are longer than two characters and have an
\* upper-case letter as their third character; no other name is an event.
C11_EventsAreTheHandlerProps ==
    (cpc = "done" /\ isComp) => events = SelectSeq(PropNamesOf(props), IsHandlerName)

(***************************************************************************)
(* fileAnalyzer.ts: the wrapper (HOC) resolver.                            *)
(***************************************************************************)
S_memo == <<"m", "e", "m", "o">>
S_forwardRef == <<"f", "o", "r", "w", "a", "r", "d", "R", "e", "f">>
S_lazy == <<"l", "a", "z", "y">>
S_React == <<"R", "e", "a", "c", "t">>
S_styled == <<"s", "t", "y", "l", "e", "d">>
S_default == <<"d", "e", "f", "a", "u", "l", "t">>
Qualified(object, property) == object \o <<".">> \o property

HOC_NAMES ==
    {S_memo, S_forwardRef, Qualified(S_React, S_memo), Qualified(S_React, S_forwardRef),
     S_lazy, Qualified(S_React, S_lazy)}

\* getHOCName(callee): the wrapper's name, <<>> for null.
getHOCName(callee) ==
    IF callee.type = "Identifier" /\ callee.name \in HOC_NAMES THEN callee.name
    ELSE IF /\ callee.type = "MemberExpression"
            /\ callee.object[1].type = "Identifier"
            /\ callee.object[1].name = S_React
            /\ callee.property[1].type = "Identifier"
            /\ Qualified(S_React, callee.property[1].name) \in HOC_NAMES
         THEN callee.property[1].name
    ELSE <<>>

\* The inner function of a direct wrapper call only, nested calls not unwrapped.
extractInnerFunction_direct(callExpr) ==
    IF callExpr.arguments = <<>> THEN <<>>
    ELSE IF isFunctionLike(callExpr.arguments[1]) THEN <<callExpr.arguments[1]>>
    ELSE <<>>

\* extractInnerFunction(callExpr): <<fn>>, or <<>> for null.
RECURSIVE extractInnerFunction(_)
extractInnerFunction(callExpr) ==
    IF callExpr.arguments = <<>> THEN <<>>
    ELSE LET firstArg == callExpr.arguments[1] IN
         IF isFunctionLike(firstArg) THEN <<firstArg>>
         ELSE IF firstArg.type = "CallExpression" /\ getHOCName(firstArg.callee[1]) # <<>>
              THEN extractInnerFunction(firstArg)
         ELSE <<>>

\* analyzeHOCComponent (componentAnalyzer.ts); hocName only sets the unused
\* _isForwardRef argument of extractPropsFromFunc.
analyzeHOCComponent(fn, componentName, filePath, hocName) ==
    LET ps == extractPropsFromFunc(fn)
    IN  [name |-> componentName,
         type |-> "arrow",
         props |-> ps,
         hooks |-> extractHooks(fn),
         events |-> extractEventsFromProps(ps),
         children |-> acceptsChildren(ps),
         imports |-> <<>>,
         filePath |-> filePath]

\* analyzeHOCCall(callExpr, fallbackName, filePath): <<record>>, or <<>> for null.
analyzeHOCCall(callExpr, fallbackName, filePath) ==
    LET hocName == getHOCName(callExpr.callee[1])
        innerFunc == extractInnerFunction(callExpr)
    IN  IF hocName = <<>> THEN <<>>
        ELSE IF innerFunc = <<>> THEN <<>>
        ELSE <<analyzeHOCComponent(innerFunc[1], fallbackName, filePath, hocName)>>

(***************************************************************************)
(* A visited node comes as a path: the node, the type of its parent and    *)
(* the type of its grandparent (nodePath.parent, nodePath.parentPath.parent).*)
(***************************************************************************)
Path(node, parent, grandparent) ==
    [node |-> node, parent |-> parent, grandparent |-> grandparent]

ExportTypes == {"ExportNamedDeclaration", "ExportDefaultDeclaration"}

\* analyzeComponent(nodePath, filePath): <<record>>, or <<>> for null.
analyzeComponent(path, filePath) ==
    LET node == path.node
        named ==
            IF node.type = "FunctionDeclaration" THEN node.id # <<>>
            ELSE IF node.type = "VariableDeclarator"
                 THEN /\ node.id[1].type = "Identifier"
                      /\ node.init # <<>>
                      /\ isFunctionLike(node.init[1])
            ELSE FALSE
        fn == IF node.type = "FunctionDeclaration" THEN node ELSE node.init[1]
    IN  IF ~named THEN <<>>
        ELSE <<[name |-> node.id[1].name,
                type |-> IF fn.type = "ArrowFunctionExpression" THEN "arrow" ELSE "function",
                props |-> extractProps(fn),
                hooks |-> extractHooks(fn),
                events |-> extractEvents(fn),
                children |-> acceptsChildren(extractProps(fn)),
                imports |-> <<>>,
                filePath |-> filePath]>>

\* functionAnalyzer.ts (its source stands at the end of functionAnalyzer.test.ts).
S_any_array == <<"a", "n", "y", "[", "]">>
S_Promise_any == <<"P", "r", "o", "m", "i", "s", "e", "<", "a", "n", "y", ">">>
S_ellipsis == <<".", ".", ".">>
S_array_pattern == <<"[", ".", ".", ".", "]">>

\* The identifier keys of a pattern's ObjectProperty entries, in order.
RECURSIVE propNames(_)
propNames(properties) ==
    IF properties = <<>> THEN <<>>
    ELSE LET p == properties[1]
         IN  (IF p.type = "ObjectProperty" /\ p.key[1].type = "Identifier"
                 /\ p.key[1].name # <<>>
              THEN <<p.key[1].name>> ELSE <<>>)
             \o propNames(Tail(properties))

\* The descriptors one parameter contributes: one, or none.
ParamInfo(param) ==
    CASE param.type = "Identifier" ->
           <<[name |-> param.name,
              type |-> extractTypes(param.typeAnnotation),
              optional |-> FALSE]>>
      [] param.type = "AssignmentPattern" ->
           IF param.left[1].type = "Identifier"
           THEN <<[name |-> param.left[1].name,
                   type |-> extractTypes(param.left[1].typeAnnotation),
                   optional |-> TRUE,
                   defaultValue |-> getDefaultValueString(param.right[1])]>>
           ELSE <<>>
      [] param.type = "RestElement" ->
           IF param.argument[1].type = "Identifier"
           THEN <<[name |-> S_ellipsis \o param.argument[1].name,
                   type |-> LET resolved == extractTypes(param.typeAnnotation)
                            IN  IF resolved = <<>> THEN S_any_array ELSE resolved,
                   optional |-> TRUE]>>
           ELSE <<>>
      [] param.type = "ObjectPattern" ->
           <<[name |-> <<"{", " ">> \o Join(propNames(param.properties), <<",", " ">>)
                           \o <<" ", "}">>,
              type |-> extractTypes(param.typeAnnotation),
              optional |-> FALSE]>>
      [] param.type = "ArrayPattern" ->
           <<[name |-> S_array_pattern,
              type |-> extractTypes(param.typeAnnotation),
              optional |-> FALSE]>>
      [] OTHER -> <<>>

extractParams(node) == Flatten([i \in 1..Len(node.params) |-> ParamInfo(node.params[i])])

extractReturnType(node) ==
    IF node.returnType # <<>> THEN extractTypes(node.returnType)
    ELSE IF node.async THEN S_Promise_any
    ELSE S_any

\* analyzeFunction reading the export status from the immediate parent only.
analyzeFunction_parentOnly(path, filePath) ==
    LET node == path.node
        declared == node.type = "FunctionDeclaration" /\ node.id # <<>>
        bound == /\ node.type = "VariableDeclarator"
                 /\ node.id[1].type = "Identifier"
                 /\ node.init # <<>>
                 /\ isFunctionLike(node.init[1])
        func == IF declared THEN node ELSE node.init[1]
    IN  IF declared \/ bound
        THEN <<[name |-> node.id[1].name,
                params |-> extractParams(func),
                returnType |-> extractReturnType(func),
                isAsync |-> func.async,
                isExported |-> path.parent \in ExportTypes,
                imports |-> <<>>,
                filePath |-> filePath]>>
        ELSE <<>>

\* analyzeFunction(nodePath, filePath): <<record>>, or <<>> for null.
analyzeFunction(path, filePath) ==
    LET node == path.node
        declared == node.type = "FunctionDeclaration" /\ node.id # <<>>
        bound == /\ node.type = "VariableDeclarator"
                 /\ node.id[1].type = "Identifier"
                 /\ node.init # <<>>
                 /\ isFunctionLike(node.init[1])
        func == IF declared THEN node ELSE node.init[1]
    IN  IF declared \/ bound
        THEN <<[name |-> node.id[1].name,
                params |-> extractParams(func),
                returnType |-> extractReturnType(func),
                isAsync |-> func.async,
                isExported |-> \/ path.parent \in ExportTypes
                               \/ /\ path.parent = "VariableDeclaration"
                                  /\ path.grandparent \in ExportTypes,
                imports |-> <<>>,
                filePath |-> filePath]>>
        ELSE <<>>

(***************************************************************************)
(* fileAnalyzer.ts: the visitors of the second traversal.  Each maps the   *)
(* accumulated state st = [components, functions, analyzedNames] to the    *)
(* state after the visit.                                                  *)
(***************************************************************************)
PushComponent(st, record, name) ==
    [st EXCEPT !.components = Append(@, record), !.analyzedNames = @ \cup {name}]
PushFunction(st, record, name) ==
    [st EXCEPT !.functions = Append(@, record), !.analyzedNames = @ \cup {name}]

\* The dispatch that records every function that is no component.
ClassifyAndAnalyze_recordsAll(st, path, fn, name, isExported, filePath) ==
    IF isReactComponent(fn)
    THEN LET info == analyzeComponent(path, filePath)
         IN  IF info # <<>> THEN PushComponent(st, info[1], name) ELSE st
    ELSE LET info == analyzeFunction(path, filePath)
         IN  IF info # <<>> THEN PushFunction(st, info[1], name) ELSE st

\* The dispatch shared by both declaration visitors (fileAnalyzer.ts 74-86, 119-131).
ClassifyAndAnalyze(st, path, fn, name, isExported, filePath) ==
    IF isReactComponent(fn)
    THEN LET info == analyzeComponent(path, filePath)
         IN  IF info # <<>> THEN PushComponent(st, info[1], name) ELSE st
    ELSE IF isExported
    THEN LET info == analyzeFunction(path, filePath)
         IN  IF info # <<>> THEN PushFunction(st, info[1], name) ELSE st
    ELSE st

OnFunctionDeclaration(st, path, filePath) ==
    IF path.node.id = <<>> THEN st
    ELSE LET name == path.node.id[1].name IN
         IF name \in st.analyzedNames THEN st
         ELSE ClassifyAndAnalyze(st, path, path.node, name,
                                 path.parent \in ExportTypes, filePath)

\* The visitor without its seen-names test.
OnVariableDeclarator_unseen(st, path, filePath) ==
    IF path.node.id[1].type # "Identifier" THEN st
    ELSE LET name == path.node.id[1].name
             init == path.node.init
             hocResult == IF init # <<>> /\ init[1].type = "CallExpression"
                          THEN analyzeHOCCall(init[1], name, filePath)
                          ELSE <<>>
         IN  IF hocResult # <<>> THEN PushComponent(st, hocResult[1], name)
             ELSE IF init = <<>> \/ ~isFunctionLike(init[1]) THEN st
             ELSE ClassifyAndAnalyze(st, path, init[1], name,
                                     path.grandparent \in ExportTypes, filePath)

OnVariableDeclarator(st, path, filePath) ==
    IF path.node.id[1].type # "Identifier" THEN st
    ELSE LET name == path.node.id[1].name
             init == path.node.init
             hocResult == IF init # <<>> /\ init[1].type = "CallExpression"
                          THEN analyzeHOCCall(init[1], name, filePath)
                          ELSE <<>>
         IN  IF name \in st.analyzedNames THEN st
             ELSE IF hocResult # <<>> THEN PushComponent(st, hocResult[1], name)
             ELSE IF init = <<>> \/ ~isFunctionLike(init[1]) THEN st
             ELSE ClassifyAndAnalyze(st, path, init[1], name,
                                     path.grandparent \in ExportTypes, filePath)

OnExportDefaultDeclaration(st, path, filePath) ==
    LET declaration == path.node.declaration[1]
        hocResult == IF declaration.type = "CallExpression"
                     THEN analyzeHOCCall(declaration, S_default, filePath)
                     ELSE <<>>
    IN  IF hocResult # <<>> /\ hocResult[1].name \notin st.analyzedNames
        THEN PushComponent(st, hocResult[1], hocResult[1].name)
        ELSE st

(***************************************************************************)
(* fileAnalyzer.ts: imports, framework and file type.                      *)
(***************************************************************************)
S_react == <<"r", "e", "a", "c", "t">>
S_react_native == S_react \o <<"-", "n", "a", "t", "i", "v", "e">>
S_react_dom == S_react \o <<"-", "d", "o", "m">>
S_react_native_svg == S_react_native \o <<"-", "s", "v", "g">>
S_lodash == <<"l", "o", "d", "a", "s", "h">>

ImportDefaultSpecifier(local) == [type |-> "ImportDefaultSpecifier", local |-> local]
ImportSpecifier(imported, local) ==
    [type |-> "ImportSpecifier", imported |-> imported, local |-> local]
ImportNamespaceSpecifier(local) == [type |-> "ImportNamespaceSpecifier", local |-> local]
ImportDeclarationNode(source, specifiers) ==
    [type |-> "ImportDeclaration", source |-> source, specifiers |-> specifiers]

SpecifierName(spec) ==
    CASE spec.type = "ImportDefaultSpecifier" -> spec.local
      [] spec.type = "ImportSpecifier" ->
             IF spec.imported.type = "Identifier" THEN spec.imported.name ELSE spec.local
      [] spec.type = "ImportNamespaceSpecifier" -> <<"*", " ", "a", "s", " ">> \o spec.local
      [] OTHER -> <<>>

\* The ImportInfo the ImportDeclaration visitor pushes (fileAnalyzer.ts 38-58).
ImportInfoOf(node) ==
    [source |-> node.source,
     specifiers |-> [i \in 1..Len(node.specifiers) |-> SpecifierName(node.specifiers[i])],
     isDefault |-> \E i \in 1..Len(node.specifiers) :
                       node.specifiers[i].type = "ImportDefaultSpecifier"]

\* The framework with react-native searched in every import before react.
detectFramework_nativeAnywhere(imps) ==
    IF \E i \in 1..Len(imps) : StartsWith(imps[i].source, S_react_native) THEN "react-native"
    ELSE IF \E i \in 1..Len(imps) : StartsWith(imps[i].source, S_react) THEN "react"
    ELSE "vanilla"

RECURSIVE detectFramework(_)
detectFramework(imps) ==
    IF imps = <<>> THEN "vanilla"
    ELSE IF imps[1].source = S_react_native \/ StartsWith(imps[1].source, S_react_native)
         THEN "react-native"
    ELSE IF imps[1].source = S_react \/ StartsWith(imps[1].source, S_react)
         THEN "react"
    ELSE detectFramework(Tail(imps))

\* The file type with the two tests in the other order.
determineFileType_functionsFirst(comps, funcs) ==
    IF Len(funcs) > 0 THEN "function"
    ELSE IF Len(comps) > 0 THEN "component"
    ELSE "unknown"

determineFileType(comps, funcs) ==
    IF Len(comps) > 0 THEN "component"
    ELSE IF Len(funcs) > 0 THEN "function"
    ELSE "unknown"

(***************************************************************************)
(* testGenerator.ts: the part of generateTest that renders the test.       *)
(***************************************************************************)
getTestingLibrary(framework) ==
    LET testImports == <<"render", "fireEvent", "screen", "waitFor">> IN
    CASE framework = "react-native" ->
            [package |-> "@testing-library/react-native", imports |-> testImports]
      [] framework = "react" -> [package |-> "@testing-library/react", imports |-> testImports]
      [] OTHER -> [package |-> "@testing-library/react", imports |-> testImports]

RecordNamesOf(records) == [i \in 1..Len(records) |-> records[i].name]

\* The default component template: the testing-library import line and one
\* describe block per component.
generateComponentTest(analysis) ==
    [template |-> "component",
     testingLibrary |-> getTestingLibrary(analysis.framework).package,
     describes |-> RecordNamesOf(analysis.components)]

\* The default function template: one describe block per function.
generateFunctionTest(analysis) ==
    [template |-> "function",
     testingLibrary |-> "none",
     describes |-> RecordNamesOf(analysis.functions)]

NoCode == [template |-> "none", testingLibrary |-> "none", describes |-> <<>>]

\* The message of the error generateTest throws.
NoRecordsError == "No components or functions found to generate tests for"

\* generateTest rendering a function test where it has nothing to render.
generateTest_rendersNothing(analysis, exists, overwrite) ==
    IF exists /\ ~overwrite THEN [code |-> NoCode, action |-> "skipped"]
    ELSE IF Len(analysis.components) > 0
    THEN [code |-> generateComponentTest(analysis),
          action |-> IF exists THEN "updated" ELSE "created"]
    ELSE [code |-> generateFunctionTest(analysis),
          action |-> IF exists THEN "updated" ELSE "created"]

\* generateTest without the existence test: it renders and writes whatever the
\* output path holds.
generateTest_alwaysWrites(analysis, exists, overwrite) ==
    IF Len(analysis.components) > 0
    THEN [code |-> generateComponentTest(analysis),
          action |-> IF exists THEN "updated" ELSE "created"]
    ELSE IF Len(analysis.functions) > 0
    THEN [code |-> generateFunctionTest(analysis),
          action |-> IF exists THEN "updated" ELSE "created"]
    ELSE [code |-> NoCode, action |-> "error", message |-> NoRecordsError]

\* generateTest(analysis, options) where exists is whether the output path
\* exists; a thrown error is the action "error".
generateTest(analysis, exists, overwrite) ==
    IF exists /\ ~overwrite THEN [code |-> NoCode, action |-> "skipped"]
    ELSE IF Len(analysis.components) > 0
    THEN [code |-> generateComponentTest(analysis),
          action |-> IF exists THEN "updated" ELSE "created"]
    ELSE IF Len(analysis.functions) > 0
    THEN [code |-> generateFunctionTest(analysis),
          action |-> IF exists THEN "updated" ELSE "created"]
    ELSE [code |-> NoCode, action |-> "error", message |-> NoRecordsError]

(***************************************************************************)
(* Inputs: parsed files.                                                   *)
(***************************************************************************)
N_Foo == <<"F", "o", "o">>
N_Bar == <<"B", "a", "r">>
BindingNames == {N_Foo, N_Bar}
S_View == <<"V", "i", "e", "w">>
S_useState == <<"u", "s", "e", "S", "t", "a", "t", "e">>
S_underscore == <<"_">>

\* ({ name }) => <div/>
CompArrow ==
    ArrowFunctionExpression(
        <<ObjectPattern(<<ObjectProperty(Identifier(S_name), Identifier(S_name))>>, <<>>)>>,
        JSXElement(<<>>))
\* ({ age }, ref) => <div/>
RefArrow ==
    ArrowFunctionExpression(
        <<ObjectPattern(<<ObjectProperty(Identifier(S_age), Identifier(S_age))>>, <<>>),
          Identifier(S_ref)>>,
        JSXElement(<<>>))
\* (x) => { return x; }
PlainArrow ==
    ArrowFunctionExpression(<<Identifier(S_x)>>,
                            BlockStatement(<<ReturnStatement(Identifier(S_x))>>))
\* () => x ? <div/> : null
CondArrow ==
    ArrowFunctionExpression(
        <<>>, ConditionalExpression(Identifier(S_x), JSXElement(<<>>), NullLiteral))
\* { useA(); return <div/>; }
CompBlock ==
    BlockStatement(<<ExpressionStatement(Call0(Identifier(S_useA))),
                     ReturnStatement(JSXElement(<<>>))>>)
\* { return x; }
PlainBlock == BlockStatement(<<ReturnStatement(Identifier(S_x))>>)

\* The wrapper callees a chain cycles through, outermost first:
\* memo, React.forwardRef, lazy.
WrapperCallee(k) ==
    CASE k % 3 = 1 -> Identifier(S_memo)
      [] k % 3 = 2 -> MemberExpression(Identifier(S_React), Identifier(S_forwardRef))
      [] OTHER -> Identifier(S_lazy)

\* Wrapper calls k .. depth around terminal: memo(React.forwardRef(lazy(...terminal))).
RECURSIVE ChainFrom(_, _, _)
ChainFrom(k, depth, terminal) ==
    CallExpression(WrapperCallee(k),
                   <<IF k = depth THEN terminal ELSE ChainFrom(k + 1, depth, terminal)>>)
Chain(depth, terminal) == ChainFrom(1, depth, terminal)

\* Calls the resolver does not unwrap: styled(fn), memo(styled(fn)), memo(),
\* Foo.memo(fn).
UnresolvedCalls ==
    {CallExpression(Identifier(S_styled), <<CompArrow>>),
     CallExpression(Identifier(S_memo), <<CallExpression(Identifier(S_styled), <<CompArrow>>)>>),
     CallExpression(Identifier(S_memo), <<>>),
     CallExpression(MemberExpression(Identifier(N_Foo), Identifier(S_memo)), <<CompArrow>>)}

VariableDeclaratorPaths ==
    {Path(VariableDeclarator(Identifier(N_Foo), <<fn>>), "VariableDeclaration", gp) :
        fn \in {CompArrow, PlainArrow}, gp \in {"ExportNamedDeclaration", "BlockStatement"}}
    \cup {Path(VariableDeclarator(Identifier(N_Foo), <<fn>>), "VariableDeclaration", "Program") :
            fn \in {CompArrow, CondArrow}}
    \cup {Path(VariableDeclarator(Identifier(N_Bar), <<PlainArrow>>),
               "VariableDeclaration", "ExportNamedDeclaration"),
          Path(VariableDeclarator(Identifier(N_Bar), <<CompArrow>>),
               "VariableDeclaration", "BlockStatement")}
    \cup {Path(VariableDeclarator(Identifier(N_Foo), <<Chain(d, RefArrow)>>),
               "VariableDeclaration", "ExportNamedDeclaration") : d \in 1..MaxHocDepth}
    \cup {Path(VariableDeclarator(Identifier(N_Bar), <<call>>),
               "VariableDeclaration", "ExportNamedDeclaration") :
            call \in {Chain(d, Identifier(N_Foo)) : d \in 1..MaxHocDepth}
                     \cup {Chain(1, PlainArrow)} \cup UnresolvedCalls}
    \cup {Path(VariableDeclarator(Identifier(N_Foo), <<Chain(1, RefArrow)>>),
               "VariableDeclaration", "BlockStatement"),
          Path(VariableDeclarator(Identifier(N_Bar), <<NumericLiteral(0)>>),
               "VariableDeclaration", "Program"),
          Path(VariableDeclarator(Identifier(N_Bar), <<>>), "VariableDeclaration", "Program"),
          Path(VariableDeclarator(ObjectPattern(<<>>, <<>>), <<Identifier(S_x)>>),
               "VariableDeclaration", "Program")}

\* export default function Foo() { return x; } and export default function () {...}
DefaultFunctions ==
    {FunctionDeclaration(<<Identifier(N_Foo)>>, <<>>, PlainBlock),
     FunctionDeclaration(<<>>, <<>>, CompBlock)}

\* export function add(a: number, b: number): number { return x; }
N_add == <<"a", "d", "d">>
AddDeclaration ==
    Path(Returning(FunctionDeclaration(
                       <<Identifier(N_add)>>,
                       <<IdentifierT(<<"a">>, <<TSTypeAnnotation(TSKeyword("TSNumberKeyword"))>>),
                         IdentifierT(<<"b">>, <<TSTypeAnnotation(TSKeyword("TSNumberKeyword"))>>)>>,
                       PlainBlock),
                   TSTypeAnnotation(TSKeyword("TSNumberKeyword"))),
         "ExportNamedDeclaration", "Program")

FunctionDeclarationPaths ==
    {AddDeclaration,
     Path(FunctionDeclaration(<<Identifier(N_Foo)>>, <<>>, CompBlock), "Program", "File"),
     Path(FunctionDeclaration(<<Identifier(N_Foo)>>, <<>>, PlainBlock), "Program", "File"),
     Path(FunctionDeclaration(<<Identifier(N_Foo)>>, <<>>, PlainBlock),
          "ExportNamedDeclaration", "Program"),
     Path(FunctionDeclaration(<<Identifier(N_Bar)>>, <<>>, CompBlock),
          "ExportNamedDeclaration", "Program"),
     Path(FunctionDeclaration(<<Identifier(N_Bar)>>, <<>>, PlainBlock),
          "ExportNamedDeclaration", "Program"),
     Path(FunctionDeclaration(<<Identifier(N_Foo)>>, <<>>, CompBlock),
          "BlockStatement", "FunctionDeclaration")}
    \cup {Path(d, "ExportDefaultDeclaration", "Program") : d \in DefaultFunctions}

ExportDefaultDeclarationPaths ==
    {Path(ExportDefaultDeclaration(d), "Program", "File") :
        d \in {Chain(1, RefArrow), Chain(MaxHocDepth, RefArrow), Chain(1, Identifier(N_Foo)),
               Identifier(N_Foo), CallExpression(Identifier(S_styled), <<CompArrow>>)}
              \cup DefaultFunctions}

DeclarationPaths ==
    VariableDeclaratorPaths \cup FunctionDeclarationPaths \cup ExportDefaultDeclarationPaths

\* The name a path binds in the module scope, <<>> if it binds none there.
ModuleScopes == {"Program", "ExportNamedDeclaration", "ExportDefaultDeclaration"}
ModuleBinding(path) ==
    IF path.node.type = "FunctionDeclaration" /\ path.parent \in ModuleScopes
    THEN (IF path.node.id = <<>> THEN <<>> ELSE <<path.node.id[1].name>>)
    ELSE IF /\ path.node.type = "VariableDeclarator"
            /\ path.grandparent \in ModuleScopes
            /\ path.node.id[1].type = "Identifier"
    THEN <<path.node.id[1].name>>
    ELSE <<>>

\* A parseable module has at most one default export and binds no name twice in
\* the module scope (a name bound again is bound in a nested scope); the
\* traversal enters an exported function declaration right after its export
\* default declaration.
Parseable(body) ==
    /\ Cardinality({i \in 1..Len(body) : body[i].node.type = "ExportDefaultDeclaration"}) <= 1
    /\ \A i, j \in 1..Len(body) :
          (i # j /\ ModuleBinding(body[i]) # <<>>) => ModuleBinding(body[i]) # ModuleBinding(body[j])
    /\ \A i \in 1..Len(body) :
          (/\ body[i].node.type = "ExportDefaultDeclaration"
           /\ body[i].node.declaration[1].type = "FunctionDeclaration")
          => /\ i < Len(body)
             /\ body[i + 1] = Path(body[i].node.declaration[1], "ExportDefaultDeclaration",
                                   "Program")
    /\ \A i \in 1..Len(body) :
          (body[i].node.type = "FunctionDeclaration" /\ body[i].parent = "ExportDefaultDeclaration")
          => /\ i > 1
             /\ body[i - 1] = Path(ExportDefaultDeclaration(body[i].node), "Program", "File")

Bodies == {b \in SeqsUpTo(DeclarationPaths, MaxDecls) : Parseable(b)}

\* import React, { useState } from 'react' and the like.
ImportOf(source) ==
    CASE source = S_react ->
            ImportDeclarationNode(source, <<ImportDefaultSpecifier(S_React),
                                            ImportSpecifier(Identifier(S_useState), S_useState)>>)
      [] source = S_lodash -> ImportDeclarationNode(source, <<ImportNamespaceSpecifier(S_underscore)>>)
      [] OTHER -> ImportDeclarationNode(source, <<ImportSpecifier(Identifier(S_View), S_View)>>)

ImportSources == {S_react, S_react_native, S_react_dom, S_react_native_svg, S_lodash}
ImportLists == SeqsUpTo({ImportOf(src) : src \in ImportSources}, MaxImports)

FilePath == "/project/src/Component.tsx"

\* Files that differ in their declarations; each imports react.
DeclarationFiles ==
    {[path |-> FilePath, imports |-> <<ImportOf(S_react)>>, body |-> b] : b \in Bodies}

\* Files that differ in their imports, over four bodies: a component and an
\* exported function, a default-exported wrapper call, an exported function, and
\* no declaration.
ImportFiles ==
    {[path |-> FilePath, imports |-> il, body |-> b] :
        il \in ImportLists,
        b \in {<<Path(VariableDeclarator(Identifier(N_Foo), <<CompArrow>>),
                      "VariableDeclaration", "ExportNamedDeclaration"),
                 Path(FunctionDeclaration(<<Identifier(N_Bar)>>, <<>>, PlainBlock),
                      "ExportNamedDeclaration", "Program")>>,
               <<Path(ExportDefaultDeclaration(Chain(1, RefArrow)), "Program", "File")>>,
               <<Path(FunctionDeclaration(<<Identifier(N_Bar)>>, <<>>, PlainBlock),
                      "ExportNamedDeclaration", "Program")>>,
               <<>>}}

(***************************************************************************)
(* analyzeFile as a state machine, followed by generateTest.               *)
(***************************************************************************)
ComponentIdle ==
    /\ funcNode = <<>>
    /\ cpc = "idle"
    /\ isComp = FALSE
    /\ props = <<>>
    /\ hooks = <<>>
    /\ events = <<>>
    /\ children = FALSE

StartOfAnalysis ==
    /\ ComponentIdle
    /\ CommandsIdle
    /\ SignatureIdle
    /\ ResolverIdle
    /\ firstResult = <<>>
    /\ pc = "imports"
    /\ cursor = 1
    /\ imports = <<>>
    /\ components = <<>>
    /\ functions = <<>>
    /\ analyzedNames = {}
    /\ result = <<>>
    /\ generated = <<>>
    /\ options = <<>>

\* A test file written before the analysis: the output path exists already.
StaleTest ==
    [template |-> "component", testingLibrary |-> "@testing-library/react",
     describes |-> <<S_x>>]

Init == file \in DeclarationFiles /\ outputFile = <<>> /\ StartOfAnalysis
InitImports ==
    /\ file \in ImportFiles
    /\ outputFile \in {<<>>, <<StaleTest>>}
    /\ StartOfAnalysis

Accumulated ==
    [components |-> components, functions |-> functions, analyzedNames |-> analyzedNames]
Becomes(st) ==
    /\ components' = st.components
    /\ functions' = st.functions
    /\ analyzedNames' = st.analyzedNames

\* First traversal: the ImportDeclaration visitor.
ImportDeclaration ==
    /\ pc = "imports"
    /\ cursor <= Len(file.imports)
    /\ imports' = Append(imports, ImportInfoOf(file.imports[cursor]))
    /\ cursor' = cursor + 1
    /\ UNCHANGED <<file, pc, components, functions, analyzedNames, result, generated,
                   options, outputFile,
                   firstResult, compVars, sigVars, typeVars, commandVars>>

\* The first traversal ends and the second begins.
SecondTraversal ==
    /\ pc = "imports"
    /\ cursor > Len(file.imports)
    /\ pc' = "declarations"
    /\ cursor' = 1
    /\ UNCHANGED <<file, imports, components, functions, analyzedNames, result, generated,
                   options, outputFile,
                   firstResult, compVars, sigVars, typeVars, commandVars>>

Visiting(type) ==
    /\ pc = "declarations"
    /\ cursor <= Len(file.body)
    /\ file.body[cursor].node.type = type

FunctionDeclarationVisitor ==
    /\ Visiting("FunctionDeclaration")
    /\ Becomes(OnFunctionDeclaration(Accumulated, file.body[cursor], file.path))
    /\ cursor' = cursor + 1
    /\ UNCHANGED <<file, pc, imports, result, generated, options, outputFile,
                   firstResult, compVars, sigVars, typeVars, commandVars>>

VariableDeclaratorVisitor ==
    /\ Visiting("VariableDeclarator")
    /\ Becomes(OnVariableDeclarator(Accumulated, file.body[cursor], file.path))
    /\ cursor' = cursor + 1
    /\ UNCHANGED <<file, pc, imports, result, generated, options, outputFile,
                   firstResult, compVars, sigVars, typeVars, commandVars>>

ExportDefaultDeclarationVisitor ==
    /\ Visiting("ExportDefaultDeclaration")
    /\ Becomes(OnExportDefaultDeclaration(Accumulated, file.body[cursor], file.path))
    /\ cursor' = cursor + 1
    /\ UNCHANGED <<file, pc, imports, result, generated, options, outputFile,
                   firstResult, compVars, sigVars, typeVars, commandVars>>

\* fileAnalyzer.ts 151-162: framework, file type and the returned FileAnalysis.
Return ==
    /\ pc = "declarations"
    /\ cursor > Len(file.body)
    /\ result' = <<[filePath |-> file.path,
                    fileType |-> determineFileType(components, functions),
                    framework |-> detectFramework(imports),
                    components |-> components,
                    functions |-> functions,
                    imports |-> imports]>>
    /\ pc' = "done"
    /\ UNCHANGED <<file, cursor, imports, components, functions, analyzedNames, generated,
                   options, outputFile,
                   firstResult, compVars, sigVars, typeVars, commandVars>>

\* generateTest on the returned analysis: the existence test reads the output
\* path, and a created or updated test is written to it.
GenerateTest ==
    /\ pc = "done"
    /\ \E overwrite \in BOOLEAN :
          LET out == generateTest(result[1], outputFile # <<>>, overwrite)
          IN  /\ options' = <<[overwrite |-> overwrite]>>
              /\ generated' = <<out>>
              /\ outputFile' = IF out.action \in {"created", "updated"}
                               THEN <<out.code>> ELSE outputFile
    /\ pc' = "generated"
    /\ UNCHANGED <<file, cursor, imports, components, functions, analyzedNames, result,
                   firstResult, compVars, sigVars, typeVars, commandVars>>

\* The locals a call of analyzeFile starts with.
FreshLocals_keptNames ==
    [components |-> <<>>, functions |-> <<>>, imports |-> <<>>,
     analyzedNames |-> analyzedNames]

FreshLocals ==
    [components |-> <<>>, functions |-> <<>>, imports |-> <<>>, analyzedNames |-> {}]

\* analyzeFile is called again on the same file, after an earlier call returned.
AnalyzeAgain ==
    /\ pc \in {"done", "generated"}
    /\ firstResult = <<>>
    /\ firstResult' = result
    /\ result' = <<>>
    /\ components' = FreshLocals.components
    /\ functions' = FreshLocals.functions
    /\ imports' = FreshLocals.imports
    /\ analyzedNames' = FreshLocals.analyzedNames
    /\ pc' = "imports"
    /\ cursor' = 1
    /\ UNCHANGED <<file, generated, options, outputFile, compVars, sigVars, typeVars, commandVars>>

Next ==
    \/ ImportDeclaration
    \/ SecondTraversal
    \/ FunctionDeclarationVisitor
    \/ VariableDeclaratorVisitor
    \/ ExportDefaultDeclarationVisitor
    \/ Return
    \/ GenerateTest

Spec == Init /\ [][Next]_vars
SpecImports == InitImports /\ [][Next]_vars

\* Two calls of analyzeFile on one file.
NextTwice == Next \/ AnalyzeAgain
SpecTwice == InitImports /\ [][NextTwice]_vars

(***************************************************************************)
(* Claims about analyzeFile.                                               *)
(***************************************************************************)
Returned == result # <<>>

\* The name a declaration path binds, in any scope: <<name>>, or <<>>.
BindingOf(path) ==
    IF path.node.type = "FunctionDeclaration"
    THEN (IF path.node.id = <<>> THEN <<>> ELSE <<path.node.id[1].name>>)
    ELSE IF path.node.type = "VariableDeclarator" /\ path.node.id[1].type = "Identifier"
    THEN <<path.node.id[1].name>>
    ELSE <<>>

\* The paths of body that bind name.
BindersOf(body, name) == {i \in 1..Len(body) : BindingOf(body[i]) = <<name>>}

\* The records of a list that carry name.
Named(records, name) == {k \in 1..Len(records) : records[k].name = name}

AllRecordNames(analysis) ==
    RecordNamesOf(analysis.components) \o RecordNamesOf(analysis.functions)

\* C1: in the analysis analyzeFile returns, no two records of components and
\* functions taken together share a name.
C1_NoTwoRecordsShareAName ==
    Returned =>
        LET names == AllRecordNames(result[1])
        IN  \A i, j \in 1..Len(names) : i # j => names[i] # names[j]

\* A visit of path alone, from the empty accumulated state, records something.
EmptyAccumulated == [components |-> <<>>, functions |-> <<>>, analyzedNames |-> {}]
RecordedAlone(path) ==
    CASE path.node.type = "FunctionDeclaration" ->
            OnFunctionDeclaration(EmptyAccumulated, path, FilePath) # EmptyAccumulated
      [] path.node.type = "VariableDeclarator" ->
            OnVariableDeclarator(EmptyAccumulated, path, FilePath) # EmptyAccumulated
      [] OTHER -> FALSE

\* C1's case: a returned analysis of a file in which two paths of different
\* binding shapes bind the same name and each alone would be recorded.
C1_Witness ==
    /\ Returned
    /\ \E i, j \in 1..Len(file.body) :
          /\ i # j
          /\ BindingOf(file.body[i]) # <<>>
          /\ BindingOf(file.body[i]) = BindingOf(file.body[j])
          /\ file.body[i].node # file.body[j].node
          /\ RecordedAlone(file.body[i])
          /\ RecordedAlone(file.body[j])
          /\ Cardinality(Named(result[1].components, BindingOf(file.body[i])[1])) = 1

\* C2: in every returned analysis fileType is 'component' exactly when components
\* is non-empty; otherwise 'function' exactly when functions is non-empty;
\* otherwise 'unknown'.
C2_FileTypeFollowsRecords ==
    Returned =>
        LET a == result[1] IN
        /\ a.fileType = "component" <=> a.components # <<>>
        /\ a.components = <<>> => (a.fileType = "function" <=> a.functions # <<>>)
        /\ (a.components = <<>> /\ a.functions = <<>>) => a.fileType = "unknown"

\* C2's case: a returned analysis with both components and functions.
C2_Witness ==
    /\ Returned
    /\ result[1].components # <<>>
    /\ result[1].functions # <<>>
    /\ result[1].fileType = "component"

\* The callee spells memo, forwardRef or lazy, bare or qualified by React.
WrapperNames == {S_memo, S_forwardRef, S_lazy}
RecognizedWrapper(callee) ==
    \/ callee.type = "Identifier" /\ callee.name \in WrapperNames
    \/ /\ callee.type = "MemberExpression"
       /\ callee.object[1] = Identifier(S_React)
       /\ callee.property[1].type = "Identifier"
       /\ callee.property[1].name \in WrapperNames

\* What a chain of recognized wrapper calls ends in: <<node>>, or <<>> when
\* expr is not such a chain.
RECURSIVE ChainEnd(_)
ChainEnd(expr) ==
    IF expr.type # "CallExpression" THEN <<>>
    ELSE IF ~RecognizedWrapper(expr.callee[1]) \/ expr.arguments = <<>> THEN <<>>
    ELSE IF expr.arguments[1].type = "CallExpression" THEN ChainEnd(expr.arguments[1])
    ELSE <<expr.arguments[1]>>

RECURSIVE ChainDepth(_)
ChainDepth(expr) ==
    IF expr.type # "CallExpression" THEN 0 ELSE 1 + ChainDepth(expr.arguments[1])

\* A variable declarator whose initializer is a wrapper chain ending in an
\* inline function.
IsChainDeclarator(path) ==
    /\ path.node.type = "VariableDeclarator"
    /\ path.node.id[1].type = "Identifier"
    /\ path.node.init # <<>>
    /\ ChainEnd(path.node.init[1]) # <<>>
    /\ isFunctionLike(ChainEnd(path.node.init[1])[1])

\* The props read from the first parameter alone.
FirstParameterOnly(fn) == [fn EXCEPT !.params = IF @ = <<>> THEN <<>> ELSE <<@[1]>>]
ChainProps(path) ==
    extractPropsFromFunc(FirstParameterOnly(ChainEnd(path.node.init[1])[1]))

\* C4 as stated: every wrapper-chain declarator of the file has, in the returned
\* analysis, exactly one ComponentRecord under its binding name, whose props are
\* those of the inline function's first parameter.
C4_EveryChainHasItsRecord ==
    Returned =>
        \A i \in 1..Len(file.body) :
            IsChainDeclarator(file.body[i]) =>
                LET name == file.body[i].node.id[1].name
                    records == Named(result[1].components, name)
                IN  /\ Cardinality(records) = 1
                    /\ \A k \in records :
                          result[1].components[k].props = ChainProps(file.body[i])

\* C4 amended: the visit of a wrapper-chain declarator whose binding name no
\* record carries yet appends exactly one ComponentRecord, named by the binding,
\* with the props of the inline function's first parameter alone, and no
\* function record; when a record already carries the name the visit adds nothing.
C4_ChainAddsOneRecordUnlessNamed ==
    [][(Visiting("VariableDeclarator") /\ IsChainDeclarator(file.body[cursor])) =>
          LET name == file.body[cursor].node.id[1].name IN
          /\ functions' = functions
          /\ IF Named(components, name) \cup Named(functions, name) # {}
             THEN components' = components
             ELSE /\ Len(components') = Len(components) + 1
                  /\ SubSeq(components', 1, Len(components)) = components
                  /\ components'[Len(components')].name = name
                  /\ components'[Len(components')].props = ChainProps(file.body[cursor])]_vars

\* C4's case: the traversal has just visited a chain of two or more wrappers
\* around a function with a ref parameter, and recorded it.
C4_Witness ==
    /\ pc = "declarations"
    /\ cursor > 1
    /\ IsChainDeclarator(file.body[cursor - 1])
    /\ ChainDepth(file.body[cursor - 1].node.init[1]) >= 2
    /\ Len(ChainEnd(file.body[cursor - 1].node.init[1])[1].params) = 2
    /\ components # <<>>
    /\ components[Len(components)].name = file.body[cursor - 1].node.id[1].name
    /\ components[Len(components)].props = ChainProps(file.body[cursor - 1])
    /\ components[Len(components)].props # <<>>

\* The call a path hands to the wrapper resolver: <<call>>, or <<>>.
ResolverCall(path) ==
    IF /\ path.node.type = "VariableDeclarator"
       /\ path.node.id[1].type = "Identifier"
       /\ path.node.init # <<>>
       /\ path.node.init[1].type = "CallExpression"
    THEN path.node.init
    ELSE IF /\ path.node.type = "ExportDefaultDeclaration"
            /\ path.node.declaration[1].type = "CallExpression"
    THEN path.node.declaration
    ELSE <<>>

\* The component a recognized wrapper call references by name: <<name>>, or <<>>.
ReferencedName(call) ==
    IF ChainEnd(call) # <<>> /\ ChainEnd(call)[1].type = "Identifier"
    THEN <<ChainEnd(call)[1].name>>
    ELSE <<>>

\* The function a declaration path declares: <<fn>>, or <<>>.
DeclaredFunction(path) ==
    IF path.node.type = "FunctionDeclaration" THEN <<path.node>>
    ELSE IF /\ path.node.type = "VariableDeclarator"
            /\ path.node.init # <<>>
            /\ isFunctionLike(path.node.init[1])
    THEN path.node.init
    ELSE <<>>

DeclaresComponent(path) ==
    DeclaredFunction(path) # <<>> /\ HasJSXAnywhere(DeclaredFunction(path)[1])

\* C5: a wrapper call whose first argument is an identifier, or a call whose
\* callee is no recognized wrapper, adds no record: none named 'default' for a
\* default export, none under the binding name of a declarator that alone binds
\* it; and the referenced component, declared once in the file, has exactly one
\* record, a ComponentRecord under its own name.
C5_ByNameWrapperAddsNoRecord ==
    Returned =>
        \A i \in 1..Len(file.body) :
            LET path == file.body[i]
                call == ResolverCall(path)
                a == result[1]
            IN  (/\ call # <<>>
                 /\ \/ ~RecognizedWrapper(call[1].callee[1])
                    \/ ReferencedName(call[1]) # <<>>) =>
                    /\ path.node.type = "ExportDefaultDeclaration" =>
                          Named(a.components, S_default) \cup Named(a.functions, S_default) = {}
                    /\ (/\ path.node.type = "VariableDeclarator"
                        /\ BindersOf(file.body, path.node.id[1].name) = {i}) =>
                          /\ Named(a.components, path.node.id[1].name) = {}
                          /\ Named(a.functions, path.node.id[1].name) = {}
                    /\ \A d \in 1..Len(file.body) :
                          (/\ ReferencedName(call[1]) # <<>>
                           /\ BindersOf(file.body, ReferencedName(call[1])[1]) = {d}
                           /\ DeclaresComponent(file.body[d])) =>
                              /\ Cardinality(Named(a.components, ReferencedName(call[1])[1])) = 1
                              /\ Named(a.functions, ReferencedName(call[1])[1]) = {}

(***************************************************************************)
(* Claims about the framework of a file.                                   *)
(***************************************************************************)
SourcesOf(imps) == [i \in 1..Len(imps) |-> imps[i].source]

C7_ReactNativeImportWins ==
    (/\ Returned
     /\ result[1].components # <<>>
     /\ \E i \in 1..Len(file.imports) : file.imports[i].source = S_react_native) =>
        /\ result[1].framework = "react-native"
        /\ (generated # <<>> /\ generated[1].action \in {"created", "updated"}) =>
              generated[1].code.testingLibrary = "@testing-library/react-native"

(***************************************************************************)
(* typeExtractor.ts: extractTypes applied to one type node.                *)
(***************************************************************************)
S_a == <<"a">>
S_a_or_b == <<"a", " ", "|", " ", "b">>
S_FC == <<"F", "C">>
S_keyof == <<"k", "e", "y", "o", "f">>

\* Types without member types: the keywords, this, references, literal types,
\* a function type and a type literal.
LeafTypes ==
    {TSKeyword(k) : k \in {"TSStringKeyword", "TSNumberKeyword", "TSBooleanKeyword",
                           "TSAnyKeyword", "TSVoidKeyword", "TSNullKeyword",
                           "TSUndefinedKeyword", "TSNeverKeyword", "TSUnknownKeyword",
                           "TSObjectKeyword", "TSBigIntKeyword", "TSSymbolKeyword",
                           "TSThisType"}}
    \cup {TSTypeReference(Identifier(S_Props)),
          TSTypeReference(TSQualifiedName(Identifier(S_React), Identifier(S_FC))),
          TSFunctionType,
          TSTypeLiteral(<<>>)}
    \cup {TSLiteralType(l) :
            l \in {StringLiteral(S_a), StringLiteral(S_a_or_b), StringLiteral(<<>>),
                   NumericLiteral(0), NumericLiteral(42),
                   BooleanLiteral(TRUE), BooleanLiteral(FALSE),
                   BigIntLiteral(1), TemplateLiteral(S_a),
                   UnaryExpression("-", NumericLiteral(1))}}

\* The member types of the composite types: a few leaves, and composites of
\* them: string[], (string), keyof Props, string & Props, [string | number, Props].
MemberTypes ==
    LET string == TSKeyword("TSStringKeyword")
        number == TSKeyword("TSNumberKeyword")
        Props == TSTypeReference(Identifier(S_Props))
    IN  {string, number, Props, TSLiteralType(StringLiteral(S_a_or_b)),
         TSArrayType(string),
         TSParenthesizedType(string),
         TSTypeOperator(S_keyof, Props),
         TSIntersectionType(<<string, Props>>),
         TSTupleType(<<TSUnionType(<<string, number>>), Props>>)}

MemberLists == {ts \in SeqsUpTo(MemberTypes, MaxTypes) : Len(ts) >= 2}

CompositeTypes ==
    {TSArrayType(m) : m \in MemberTypes}
    \cup {TSParenthesizedType(m) : m \in MemberTypes}
    \cup {TSUnionType(ts) : ts \in MemberLists}
    \cup {TSIntersectionType(ts) : ts \in MemberLists}
    \cup {TSTupleType(ts) : ts \in SeqsUpTo(MemberTypes, MaxTypes)}

TypeNodes == LeafTypes \cup MemberTypes \cup CompositeTypes

\* The arguments of extractTypes: nothing, a type node, or the annotation
\* wrapper around one.
TypeArguments ==
    {<<>>} \cup {<<n>> : n \in TypeNodes} \cup {<<TSTypeAnnotation(n)>> : n \in LeafTypes}

InitTypes ==
    /\ FileIdle
    /\ CommandsIdle
    /\ ComponentIdle
    /\ SignatureIdle
    /\ typeNode \in TypeArguments
    /\ tpc = "resolve"
    /\ typeString = <<>>

ExtractTypes ==
    /\ tpc = "resolve"
    /\ typeString' = <<extractTypes(typeNode)>>
    /\ tpc' = "resolved"
    /\ UNCHANGED <<typeNode, compVars, fileVars, sigVars, commandVars>>

NextTypes == ExtractTypes

SpecTypes == InitTypes /\ [][NextTypes]_vars

Resolved == tpc = "resolved"
\* The node extractTypes decides on: the argument below its annotation wrappers.
RECURSIVE Unwrapped(_)
Unwrapped(node) ==
    IF node.type = "TSTypeAnnotation" THEN Unwrapped(node.typeAnnotation[1]) ELSE node

\* A string value: a sequence of characters.
IsString(v) == DOMAIN v = 1..Len(v) /\ \A i \in 1..Len(v) : v[i] \in STRING

\* The primitive keywords and their names.
PrimitiveName ==
    [TSStringKeyword |-> "string", TSNumberKeyword |-> "number",
     TSBooleanKeyword |-> "boolean", TSAnyKeyword |-> "any", TSVoidKeyword |-> "void",
     TSNullKeyword |-> "null", TSUndefinedKeyword |-> "undefined",
     TSNeverKeyword |-> "never", TSUnknownKeyword |-> "unknown",
     TSObjectKeyword |-> "object"]

\* The characters of a keyword's name.
Chars ==
    [string |-> S_string, number |-> S_number, boolean |-> S_boolean, any |-> S_any,
     void |-> S_void, null |-> S_null, undefined |-> S_undefined, never |-> S_never,
     unknown |-> S_unknown, object |-> S_object]

\* The node kinds the resolution rules name.
RuledTypes ==
    DOMAIN PrimitiveName
    \cup {"TSArrayType", "TSTypeReference", "TSUnionType", "TSIntersectionType",
          "TSLiteralType", "TSTupleType", "TSFunctionType", "TSTypeLiteral"}

\* C12: extractTypes returns a string for every argument; for an absent node it
\* returns "any", for each of the ten primitive keywords the keyword's name, and
\* for every node that none of the rules names it returns "any".
C12_ExtractTypesIsTotalWithAnyFallback ==
    Resolved =>
        /\ Len(typeString) = 1
        /\ IsString(typeString[1])
        /\ typeNode = <<>> => typeString[1] = S_any
        /\ typeNode # <<>> =>
              LET type == Unwrapped(typeNode[1]).type
              IN  /\ type \in DOMAIN PrimitiveName => typeString[1] = Chars[PrimitiveName[type]]
                  /\ type \notin RuledTypes => typeString[1] = S_any

C12_Witness ==
    /\ Resolved
    /\ typeNode # <<>>
    /\ typeNode[1].type = "TSParenthesizedType"
    /\ typeString = <<S_any>>

\* The union node extractTypes decided on, its member descriptors and the
\* separator of a union.
UnionResolved ==
    Resolved /\ typeNode # <<>> /\ Unwrapped(typeNode[1]).type = "TSUnionType"
Members == Unwrapped(typeNode[1]).types
Descriptors == [i \in 1..Len(Members) |-> extractTypes(<<Members[i]>>)]
UnionSeparator == <<" ", "|", " ">>

\* The number of places of s where sub occurs.
Occurrences(s, sub) ==
    Cardinality({i \in 1..(Len(s) + 1 - Len(sub)) : SubSeq(s, i, i + Len(sub) - 1) = sub})

RECURSIVE OccurrencesInAll(_, _)
OccurrencesInAll(ss, sub) ==
    IF ss = <<>> THEN 0 ELSE Occurrences(ss[1], sub) + OccurrencesInAll(Tail(ss), sub)

\* Where the i-th of the parts ds starts in their joined string.
RECURSIVE StartOf(_, _, _)
StartOf(ds, i, sep) ==
    IF i = 1 THEN 1 ELSE StartOf(ds, i - 1, sep) + Len(ds[i - 1]) + Len(sep)

\* C13 (as stated): the output for a union of N members contains exactly N - 1
\* occurrences of " | ".
C13_UnionHasExactlyNMinusOneSeparators ==
    UnionResolved => Occurrences(typeString[1], UnionSeparator) = Len(Members) - 1

\* C13 (amended): the output for a union of N members is the members'
\* descriptors in declared order, each followed by " | " except the last and
\* nothing else; " | " occurs N - 1 times between the members, plus the times it
\* occurs inside the members' own descriptors.
C13_UnionJoinsMembersInOrder ==
    UnionResolved =>
        LET out == typeString[1]
            ds == Descriptors
            N == Len(ds)
            End(i) == StartOf(ds, i, UnionSeparator) + Len(ds[i]) - 1
        IN  /\ \A i \in 1..N : SubSeq(out, StartOf(ds, i, UnionSeparator), End(i)) = ds[i]
            /\ \A i \in 1..(N - 1) : SubSeq(out, End(i) + 1, End(i) + 3) = UnionSeparator
            /\ Len(out) = End(N)
            /\ Occurrences(out, UnionSeparator)
                  = (N - 1) + OccurrencesInAll(ds, UnionSeparator)

\* A union whose member descriptors differ and one of which holds " | " itself.
C13_Witness ==
    /\ UnionResolved
    /\ Descriptors[1] # Descriptors[2]
    /\ Members[1].type = "TSTupleType"
    /\ Occurrences(typeString[1], UnionSeparator) = Len(Members)

\* The literal-type node extractTypes decided on, and its literal.
LiteralResolved ==
    Resolved /\ typeNode # <<>> /\ Unwrapped(typeNode[1]).type = "TSLiteralType"
Literal == Unwrapped(typeNode[1]).literal[1]

\* The number a decimal numeral denotes.
DigitValue(ch) == CHOOSE d \in 0..9 : Digit(d) = ch
RECURSIVE NumeralValue(_)
NumeralValue(s) ==
    IF Len(s) = 1 THEN DigitValue(s[1])
    ELSE 10 * NumeralValue(SubSeq(s, 1, Len(s) - 1)) + DigitValue(s[Len(s)])
IsNumeral(s) ==
    /\ Len(s) >= 1
    /\ \A i \in 1..Len(s) : \E d \in 0..9 : Digit(d) = s[i]
    /\ Len(s) > 1 => s[1] # "0"

\* The three renderings the rule names: the value in single quotes, the
\* numeral of the value, true or false.
QuotedValue(out) ==
    /\ Literal.type = "StringLiteral"
    /\ Len(out) = Len(Literal.value) + 2
    /\ out[1] = "'" /\ out[Len(out)] = "'"
    /\ SubSeq(out, 2, Len(out) - 1) = Literal.value
NumericText(out) ==
    /\ Literal.type = "NumericLiteral"
    /\ IsNumeral(out)
    /\ NumeralValue(out) = Literal.value
BooleanText(out) ==
    /\ Literal.type = "BooleanLiteral"
    /\ out = (IF Literal.value THEN <<"t", "r", "u", "e">> ELSE <<"f", "a", "l", "s", "e">>)

\* C14 (as stated): for a literal-type node extractTypes returns the value in
\* single quotes, the numeric text, or true/false, and no other string.
C14_LiteralIsQuotedNumericOrBoolean ==
    LiteralResolved =>
        \/ QuotedValue(typeString[1])
        \/ NumericText(typeString[1])
        \/ BooleanText(typeString[1])

\* C14 (amended): for a literal-type node extractTypes returns the value in
\* single quotes for a string literal, the numeric text for a numeric literal,
\* true/false for a boolean literal, and the word "literal" for a literal of
\* any other kind.
C14_LiteralRenderingWithFallback ==
    LiteralResolved =>
        CASE Literal.type = "StringLiteral" -> QuotedValue(typeString[1])
          [] Literal.type = "NumericLiteral" -> NumericText(typeString[1])
          [] Literal.type = "BooleanLiteral" -> BooleanText(typeString[1])
          [] OTHER -> typeString[1] = <<"l", "i", "t", "e", "r", "a", "l">>

\* The literal type -1 has been resolved.
C14_Witness ==
    /\ LiteralResolved
    /\ Literal.type = "UnaryExpression"
    /\ typeString = <<S_literal>>

(***************************************************************************)
(* functionAnalyzer: the signature of one function-like node.              *)
(***************************************************************************)
S_b == <<"b">>
S_World == <<"W", "o", "r", "l", "d">>
ParamNames == <<S_a, S_b, S_c, S_o>>

NumberArray == TSTypeAnnotation(TSArrayType(TSKeyword("TSNumberKeyword")))
NumberType == TSTypeAnnotation(TSKeyword("TSNumberKeyword"))
StringType == TSTypeAnnotation(TSKeyword("TSStringKeyword"))

\* Default-value initializers: 'World', 0, 42, true, false, null, undefined, [],
\* {}, x(), -1.
Initializers ==
    {StringLiteral(S_World), NumericLiteral(0), NumericLiteral(42), BooleanLiteral(TRUE),
     BooleanLiteral(FALSE), NullLiteral, Identifier(S_undefined), ArrayExpression,
     ObjectExpression, Call0(Identifier(S_x)), UnaryExpression("-", NumericLiteral(1))}

\* The forms of a parameter that is not the last: n, n: number, n = 0, { n },
\* { n } = {}.
InnerParams(n) ==
    {Identifier(n),
     IdentifierT(n, <<NumberType>>),
     AssignmentPattern(Identifier(n), NumericLiteral(0)),
     ObjectPattern(<<ObjectProperty(Identifier(n), Identifier(n))>>, <<>>),
     AssignmentPattern(ObjectPattern(<<ObjectProperty(Identifier(n), Identifier(n))>>, <<>>),
                       ObjectExpression)}

\* The forms of the last parameter: those, n = initializer, n: string = initializer,
\* [n], [n] = [], ...n, ...n: number[], ...[n].
LastParams(n) ==
    InnerParams(n)
    \cup {AssignmentPattern(Identifier(n), e) : e \in Initializers}
    \cup {AssignmentPattern(IdentifierT(n, <<StringType>>), e) :
            e \in {StringLiteral(S_World), Call0(Identifier(S_x))}}
    \cup {ArrayPattern(<<Identifier(n)>>),
          AssignmentPattern(ArrayPattern(<<Identifier(n)>>), ArrayExpression),
          RestElement(Identifier(n)),
          Annotated(RestElement(Identifier(n)), NumberArray),
          RestElement(ArrayPattern(<<Identifier(n)>>))}

\* Parameter lists of length k: the i-th parameter binds the i-th name.
RECURSIVE InnerLists(_)
InnerLists(k) ==
    IF k = 0 THEN {<<>>}
    ELSE {Append(ps, p) : ps \in InnerLists(k - 1), p \in InnerParams(ParamNames[k])}
ParamLists ==
    {<<>>} \cup UNION {{Append(ps, p) : ps \in InnerLists(k - 1), p \in LastParams(ParamNames[k])} :
                         k \in 1..MaxParams}

\* (params) => { return x }, plain or async, with or without the return type
\* number.
SignatureFuncs ==
    LET Plain == {ArrowFunctionExpression(ps, BlockStatement(<<ReturnStatement(Identifier(S_x))>>)) :
                     ps \in ParamLists}
        Sync == Plain \cup {Async(f) : f \in Plain}
    IN  Sync \cup {Returning(f, NumberType) : f \in Sync}

InitSignature ==
    /\ FileIdle
    /\ CommandsIdle
    /\ ResolverIdle
    /\ funcNode \in SignatureFuncs
    /\ cpc = "params"
    /\ isComp = FALSE
    /\ props = <<>>
    /\ hooks = <<>>
    /\ events = <<>>
    /\ children = FALSE
    /\ params = <<>>
    /\ returnType = <<>>

ExtractParams ==
    /\ cpc = "params"
    /\ params' = extractParams(funcNode)
    /\ cpc' = "returnType"
    /\ UNCHANGED <<funcNode, isComp, props, hooks, events, children, returnType,
                   fileVars, typeVars, commandVars>>

ExtractReturnType ==
    /\ cpc = "returnType"
    /\ returnType' = <<extractReturnType(funcNode)>>
    /\ cpc' = "analyzed"
    /\ UNCHANGED <<funcNode, isComp, props, hooks, events, children, params,
                   fileVars, typeVars, commandVars>>

NextSignature == ExtractParams \/ ExtractReturnType

SpecSignature == InitSignature /\ [][NextSignature]_vars

ParamsExtracted == cpc \in {"returnType", "analyzed"}

\* The rest parameter of the function under analysis: the last one, if any.
HasRestParameter ==
    /\ funcNode.params # <<>>
    /\ funcNode.params[Len(funcNode.params)].type = "RestElement"
RestParameter == funcNode.params[Len(funcNode.params)]

\* C15: for a rest parameter extractParams yields a descriptor whose name
\* begins with "...", whose optional is true and whose type is the resolved
\* annotation, or "any[]" when the parameter has no annotation.
C15_RestParameterDescriptor ==
    (ParamsExtracted /\ HasRestParameter) =>
        /\ params # <<>>
        /\ LET d == params[Len(params)]
           IN  /\ Len(d.name) > 3
               /\ SubSeq(d.name, 1, 3) = <<".", ".", ".">>
               /\ d.optional = TRUE
               /\ d.type = IF RestParameter.typeAnnotation = <<>>
                           THEN <<"a", "n", "y", "[", "]">>
                           ELSE extractTypes(RestParameter.typeAnnotation)

\* The text the rule gives for a default-value initializer.
DefaultText(node, text) ==
    CASE node.type = "StringLiteral" ->
           /\ Len(text) = Len(node.value) + 2
           /\ text[1] = "'" /\ text[Len(text)] = "'"
           /\ SubSeq(text, 2, Len(text) - 1) = node.value
      [] node.type = "NumericLiteral" -> IsNumeral(text) /\ NumeralValue(text) = node.value
      [] node.type = "BooleanLiteral" ->
           text = (IF node.value THEN <<"t", "r", "u", "e">> ELSE <<"f", "a", "l", "s", "e">>)
      [] node.type = "NullLiteral" -> text = <<"n", "u", "l", "l">>
      [] node.type = "ArrayExpression" -> text = <<"[", "]">>
      [] node.type = "ObjectExpression" -> text = <<"{", "}">>
      [] OTHER -> text = <<"u", "n", "d", "e", "f", "i", "n", "e", "d">>

\* The descriptors that carry a default value.
Defaulted == SelectSeq(params, LAMBDA d : "defaultValue" \in DOMAIN d)
\* The parameters that have a default-value initializer.
WithInitializer == SelectSeq(funcNode.params, LAMBDA q : q.type = "AssignmentPattern")

\* C16: every parameter with a default-value initializer has its descriptor,
\* with optional = true and defaultValue the text of the initializer: the
\* quoted string, the number's text, true/false, null, [], {}, and undefined
\* for every other expression.
C16_DefaultedParameterDescriptor ==
    ParamsExtracted =>
        /\ Len(Defaulted) = Len(WithInitializer)
        /\ \A i \in 1..Len(Defaulted) :
              /\ Defaulted[i].optional = TRUE
              /\ DefaultText(WithInitializer[i].right[1], Defaulted[i].defaultValue)

\* The declaration at path p binds name to a function: function name() {} or
\* const name = function-like.
DeclaresFunctionNamed(p, name) ==
    \/ /\ p.node.type = "FunctionDeclaration"
       /\ p.node.id # <<>>
       /\ p.node.id[1].name = name
    \/ /\ p.node.type = "VariableDeclarator"
       /\ p.node.id[1].type = "Identifier"
       /\ p.node.id[1].name = name
       /\ p.node.init # <<>>
       /\ p.node.init[1].type \in {"ArrowFunctionExpression", "FunctionExpression"}

\* The declaration at path p is exported: a function declaration directly
\* under an export declaration, or a declarator whose variable declaration is.
UnderExport(p) ==
    LET exports == {"ExportNamedDeclaration", "ExportDefaultDeclaration"}
    IN  IF p.node.type = "VariableDeclarator" THEN p.grandparent \in exports
        ELSE p.parent \in exports

NumberParam(name) == [name |-> name, type |-> S_number, optional |-> FALSE]

\* C17: a function record's isExported is true exactly when a declaration of
\* its name in the file is a function directly under an export declaration (for
\* a variable-bound function, its variable declaration is); and export function
\* add(a: number, b: number): number gives exactly one function record: name
\* add, params a and b of type number and not optional, returnType number,
\* isAsync false, isExported true.
C17_ExportStatusAndSignature ==
    Returned =>
        LET records == result[1].functions
        IN  /\ \A i \in 1..Len(records) :
                  records[i].isExported
                      <=> \E k \in 1..Len(file.body) :
                             /\ DeclaresFunctionNamed(file.body[k], records[i].name)
                             /\ UnderExport(file.body[k])
            /\ (\E k \in 1..Len(file.body) : file.body[k] = AddDeclaration) =>
                  LET adds == SelectSeq(records, LAMBDA r : r.name = <<"a", "d", "d">>)
                  IN  /\ Len(adds) = 1
                      /\ adds[1].params = <<NumberParam(<<"a">>), NumberParam(<<"b">>)>>
                      /\ adds[1].returnType = S_number
                      /\ adds[1].isAsync = FALSE
                      /\ adds[1].isExported = TRUE

\* The file with export function add(...) and an exported arrow function has
\* been analysed.
C17_Witness ==
    /\ Returned
    /\ \E k \in 1..Len(file.body) : file.body[k] = AddDeclaration
    /\ Len(result[1].functions) = 2
    /\ \E i \in 1..2 : result[1].functions[i].name = N_add
    /\ \E k \in 1..Len(file.body) :
          /\ file.body[k].node.type = "VariableDeclarator"
          /\ \E i \in 1..2 : DeclaresFunctionNamed(file.body[k], result[1].functions[i].name)

\* A second call of analyzeFile on the same file has returned.
ReturnedAgain == Returned /\ firstResult # <<>>

C19_RecordsCarryTheImportList ==
    Returned =>
        /\ \A i \in 1..Len(result[1].components) :
              result[1].components[i].imports = result[1].imports
        /\ \A i \in 1..Len(result[1].functions) :
              result[1].functions[i].imports = result[1].imports

\* A generateTest call has returned; what it found at the output path is
\* the file's content before the step.
GenerateTestReturns == pc = "done" /\ pc' = "generated"
Existed == outputFile # <<>>

\* C20: generateTest leaves an existing output file alone unless overwrite is
\* true: with the file present and overwrite false it returns skipped with
\* empty code and the file keeps its content; in every other call that
\* succeeds it writes the generated code and returns updated if the file
\* existed, created if not.
C20_ExistingFileKeptUnlessOverwrite ==
    [][GenerateTestReturns =>
          LET out == generated'[1]
              overwrite == options'[1].overwrite
          IN  IF Existed /\ ~overwrite
              THEN /\ out.action = "skipped"
                   /\ out.code = [template |-> "none", testingLibrary |-> "none",
                                  describes |-> <<>>]
                   /\ outputFile' = outputFile
              ELSE \/ /\ out.action = (IF Existed THEN "updated" ELSE "created")
                      /\ out.code.describes # <<>>
                      /\ outputFile' = <<out.code>>
                   \/ /\ out.action = "error"
                      /\ outputFile' = outputFile]_vars

\* A call without overwrite has found a test file at the output path, for a
\* file with a component, and has left it as it was.
C20_Witness ==
    /\ pc = "generated"
    /\ result[1].components # <<>>
    /\ ~options[1].overwrite
    /\ generated[1].action = "skipped"
    /\ outputFile = <<StaleTest>>

\* The analysis handed to generateTest holds no component and no function.
NothingToTest == result[1].components = <<>> /\ result[1].functions = <<>>
Rejected(out) ==
    /\ out.action = "error"
    /\ out.message = "No components or functions found to generate tests for"

\* C21 (as stated): for an analysis without components and functions
\* generateTest rejects with the error and writes no file, whatever the options
\* and whether or not the output path exists.
C21_EmptyAnalysisAlwaysRejected ==
    [][(GenerateTestReturns /\ NothingToTest) =>
          /\ Rejected(generated'[1])
          /\ outputFile' = outputFile]_vars

\* C21 (amended): for an analysis without components and functions
\* generateTest writes no file; it rejects with the error unless the output
\* path exists and overwrite is not set, in which case it returns skipped.
C21_EmptyAnalysisRejectedUnlessSkipped ==
    [][(GenerateTestReturns /\ NothingToTest) =>
          /\ outputFile' = outputFile
          /\ IF Existed /\ ~options'[1].overwrite
             THEN generated'[1].action = "skipped"
             ELSE Rejected(generated'[1])]_vars

\* An empty analysis has been rejected although the output path exists.
C21_Witness ==
    /\ pc = "generated"
    /\ NothingToTest
    /\ options[1].overwrite
    /\ Rejected(generated[1])
    /\ outputFile = <<StaleTest>>

(***************************************************************************)
(* configLoader.ts: the configuration and mergeConfigWithOptions.  An      *)
(* options object is a record of slots, one per key: <<>> for a key that   *)
(* is absent or undefined, <<v>> for a key that holds v.                   *)
(***************************************************************************)
OptionKeys ==
    {"snapshot", "mock", "testSuffix", "overwrite", "testRunner", "templatesDir", "output"}

\* const merged: GeneratorOptions = {}
EmptyOptions == [k \in OptionKeys |-> <<>>]

\* Object.assign(target, source): every own key of source replaces target's.
ObjectAssign(target, source) ==
    [k \in OptionKeys |-> IF source[k] # <<>> THEN source[k] ELSE target[k]]

\* if (options.key !== undefined) merged.key = options.key
Override(merged, from, key) ==
    IF from[key] # <<>> THEN [merged EXCEPT ![key] = from[key]] ELSE merged

\* config?.generator and config?.templatesDir: undefined on a null config.
GeneratorOf(cfg) == IF cfg = <<>> THEN <<>> ELSE cfg[1].generator
TemplatesDirOf(cfg) == IF cfg = <<>> THEN <<>> ELSE cfg[1].templatesDir

\* A string is truthy unless it is empty.
Truthy(slot) == slot # <<>> /\ slot[1] # ""

RECURSIVE OverrideAll(_, _, _)
OverrideAll(merged, from, keys) ==
    IF keys = <<>> THEN merged
    ELSE OverrideAll(Override(merged, from, Head(keys)), from, Tail(keys))

\* The order of the seven tests of configLoader.ts 113-133.
OverrideOrder ==
    <<"snapshot", "mock", "testSuffix", "overwrite", "testRunner", "templatesDir", "output">>

mergeConfigWithOptions_configWins(cfg, opts) ==
    LET cli == OverrideAll(EmptyOptions, opts, OverrideOrder)
        withGenerator == IF GeneratorOf(cfg) # <<>>
                         THEN ObjectAssign(cli, GeneratorOf(cfg)[1])
                         ELSE cli
    IN  IF Truthy(TemplatesDirOf(cfg))
        THEN [withGenerator EXCEPT !.templatesDir = TemplatesDirOf(cfg)]
        ELSE withGenerator

mergeConfigWithOptions(cfg, opts) ==
    LET withGenerator == IF GeneratorOf(cfg) # <<>>
                         THEN ObjectAssign(EmptyOptions, GeneratorOf(cfg)[1])
                         ELSE EmptyOptions
        withTemplates == IF Truthy(TemplatesDirOf(cfg))
                         THEN [withGenerator EXCEPT !.templatesDir = TemplatesDirOf(cfg)]
                         ELSE withGenerator
    IN  OverrideAll(withTemplates, opts, OverrideOrder)

\* The configurations normalizeConfig produces (configLoader.ts 42-88): a
\* generator section holds at most snapshot, mock, testSuffix, overwrite and
\* testRunner, and templatesDir is set only to a truthy templates.dir.
Slots(values) == {<<>>} \cup {<<v>> : v \in values}

GeneratorSections ==
    [snapshot : Slots(BOOLEAN), mock : Slots({TRUE}), testSuffix : Slots({".test"}),
     overwrite : Slots({TRUE}), testRunner : Slots({"vitest"}),
     templatesDir : {<<>>}, output : {<<>>}]

Configs ==
    {<<>>} \cup
    {<<c>> : c \in [generator : Slots(GeneratorSections),
                    templatesDir : Slots({"./templates"})]}

\* The options a caller can pass: any key may be left out, and a key that is
\* given may hold a falsy value.
CliOptionSets ==
    [snapshot : Slots(BOOLEAN), mock : Slots({FALSE}), testSuffix : Slots({".spec"}),
     overwrite : Slots({FALSE}), testRunner : Slots({"jest"}),
     templatesDir : Slots({"./cli-templates"}), output : Slots({"./output.test.ts"})]

AnalyzersIdle ==
    /\ FileIdle
    /\ ComponentIdle
    /\ SignatureIdle
    /\ ResolverIdle

InitMerge ==
    /\ AnalyzersIdle
    /\ WatchIdle
    /\ ScanIdle
    /\ CallsIdle
    /\ config \in Configs
    /\ argv = {}
    /\ cliOptions \in {<<o>> : o \in CliOptionSets}
    /\ mergedOptions = <<>>
    /\ mpc = "merge"

MergeConfigWithOptions ==
    /\ mpc = "merge"
    /\ mergedOptions' = <<mergeConfigWithOptions(config, cliOptions[1])>>
    /\ mpc' = "merged"
    /\ UNCHANGED <<config, argv, cliOptions, analyzerVars, callVars, scanVars, watchVars>>

NextMerge == MergeConfigWithOptions
SpecMerge == InitMerge /\ [][NextMerge]_vars

\* The value the configuration gives a key: templatesDir comes from the
\* configuration's own templatesDir, every other key from its generator section.
ConfigValue(cfg, key) ==
    IF key = "templatesDir" /\ TemplatesDirOf(cfg) # <<>> THEN TemplatesDirOf(cfg)
    ELSE IF GeneratorOf(cfg) # <<>> THEN GeneratorOf(cfg)[1][key]
    ELSE <<>>

EmptyConfig == <<[generator |-> <<>>, templatesDir |-> <<>>]>>

\* C22: for each of the seven keys the merged value is the CLI option when it
\* is defined, otherwise the value from the configuration, otherwise absent;
\* and a null configuration merges like an empty one.
C22_CliOptionsTakePrecedenceKeyByKey ==
    mpc = "merged" =>
        /\ \A key \in OptionKeys :
              mergedOptions[1][key] =
                  IF cliOptions[1][key] # <<>> THEN cliOptions[1][key]
                  ELSE ConfigValue(config, key)
        /\ config = <<>> =>
              mergedOptions[1] = mergeConfigWithOptions(EmptyConfig, cliOptions[1])

\* A falsy CLI value replaces a truthy configured one, while a key the CLI
\* leaves out keeps the configured value.
C22_Witness ==
    /\ mpc = "merged"
    /\ cliOptions[1].snapshot = <<FALSE>>
    /\ ConfigValue(config, "snapshot") = <<TRUE>>
    /\ mergedOptions[1].snapshot = <<FALSE>>
    /\ cliOptions[1].templatesDir = <<>>
    /\ mergedOptions[1].templatesDir = <<"./templates">>
    /\ cliOptions[1].testRunner = <<>>
    /\ mergedOptions[1].testRunner = <<"vitest">>


(***************************************************************************)
(* part_006 150-219: the generate command.  commander parses the flags,    *)
(* the action builds the options object and merges it with the loaded      *)
(* configuration; the merged options are what generateTest receives.       *)
(***************************************************************************)
Flags == {"--output", "--snapshot", "--mock", "--overwrite", "--vitest", "--templates-dir"}

\* .option(flag, description, default) of a boolean flag: true when the flag
\* is passed, its default otherwise.
BooleanOption(args, flag, default) == IF flag \in args THEN TRUE ELSE default

\* .option('--flag <path>', description): the value passed, else undefined.
ValueOption(args, flag, value) == IF flag \in args THEN <<value>> ELSE <<>>

\* The options object commander hands to the action (part_006 155-161).
ParsedOptions(args) ==
    [output |-> ValueOption(args, "--output", "./output.test.ts"),
     snapshot |-> BooleanOption(args, "--snapshot", FALSE),
     mock |-> BooleanOption(args, "--mock", TRUE),
     overwrite |-> BooleanOption(args, "--overwrite", FALSE),
     vitest |-> BooleanOption(args, "--vitest", FALSE),
     templatesDir |-> ValueOption(args, "--templates-dir", "./cli-templates")]

\* The second argument of mergeConfigWithOptions (part_006 174-181).
ActionOptions(parsed) ==
    [output |-> parsed.output,
     snapshot |-> <<parsed.snapshot>>,
     mock |-> <<parsed.mock>>,
     overwrite |-> <<parsed.overwrite>>,
     testRunner |-> <<IF parsed.vitest THEN "vitest" ELSE "jest">>,
     templatesDir |-> parsed.templatesDir,
     testSuffix |-> <<>>]

InitGenerate ==
    /\ AnalyzersIdle
    /\ WatchIdle
    /\ ScanIdle
    /\ CallsIdle
    /\ config \in Configs
    /\ argv \in SUBSET Flags
    /\ cliOptions = <<>>
    /\ mergedOptions = <<>>
    /\ mpc = "parse"

ParseArguments ==
    /\ mpc = "parse"
    /\ cliOptions' = <<ActionOptions(ParsedOptions(argv))>>
    /\ mpc' = "merge"
    /\ UNCHANGED <<config, argv, mergedOptions, analyzerVars, callVars, scanVars, watchVars>>

NextGenerate == ParseArguments \/ MergeConfigWithOptions
SpecGenerate == InitGenerate /\ [][NextGenerate]_vars

\* The flag that sets each of the four keys.
FlagOf(key) ==
    CASE key = "snapshot" -> "--snapshot"
      [] key = "mock" -> "--mock"
      [] key = "overwrite" -> "--overwrite"
      [] key = "testRunner" -> "--vitest"

FlagKeys == {"snapshot", "mock", "overwrite", "testRunner"}

\* C30: in the generate command, for each of snapshot, mock, overwrite and
\* testRunner, when the flag is not passed and the configuration's generator
\* section sets the key, the value generateTest receives is the configured
\* one; only a flag that was passed replaces a configured value.
C30_ConfigValueUsedUnlessFlagPassed ==
    mpc = "merged" =>
        \A key \in FlagKeys :
            (FlagOf(key) \notin argv /\ ConfigValue(config, key) # <<>>)
                => mergedOptions[1][key] = ConfigValue(config, key)


(***************************************************************************)
(* Two calls of analyzeFile in flight at once.  A call is suspended at     *)
(* the two awaits of parseFile (part_005 194-207) and at await parseFile   *)
(* (fileAnalyzer.ts 29); what follows the last await runs to the return    *)
(* without suspending.                                                     *)
(***************************************************************************)
CallIds == {1, 2}
OtherCall(c) == 3 - c

Visit(st, path, filePath) ==
    CASE path.node.type = "FunctionDeclaration" -> OnFunctionDeclaration(st, path, filePath)
      [] path.node.type = "VariableDeclarator" -> OnVariableDeclarator(st, path, filePath)
      [] path.node.type = "ExportDefaultDeclaration" ->
            OnExportDefaultDeclaration(st, path, filePath)
      [] OTHER -> st

\* traverse(ast, {...}) of fileAnalyzer.ts 62-149, from the locals st.
RECURSIVE Traverse(_, _, _)
Traverse(st, body, filePath) ==
    IF body = <<>> THEN st
    ELSE Traverse(Visit(st, Head(body), filePath), Tail(body), filePath)

\* The locals after both traversals: st from the second, imps from the first.
LocalsAfter(st, imps) ==
    [components |-> st.components,
     functions |-> st.functions,
     imports |-> imps,
     analyzedNames |-> st.analyzedNames]

\* Both traversals of one file, from the locals the call declared.
Traversed(f, locals) ==
    LocalsAfter(Traverse([components |-> locals.components, functions |-> locals.functions,
                          analyzedNames |-> locals.analyzedNames], f.body, f.path),
                locals.imports \o [i \in 1..Len(f.imports) |-> ImportInfoOf(f.imports[i])])

\* fileAnalyzer.ts 151-162: the returned FileAnalysis.
FileAnalysis(f, locals) ==
    [filePath |-> f.path,
     fileType |-> determineFileType(locals.components, locals.functions),
     framework |-> detectFramework(locals.imports),
     components |-> locals.components,
     functions |-> locals.functions,
     imports |-> locals.imports]

\* The locals of a call that finds the seen names of the earlier calls.
DeclareLocals_sharedNames(allFrames, c) ==
    [FreshLocals EXCEPT !.analyzedNames =
        UNION {allFrames[d][1].analyzedNames : d \in {e \in CallIds : allFrames[e] # <<>>}}]

\* fileAnalyzer.ts 31-34: every call declares its own four locals.
DeclareLocals(allFrames, c) == FreshLocals

PathA == "/project/src/A.tsx"
PathB == "/project/src/B.tsx"

\* The files of the two calls: one declaration or none, under two paths.
CallBodies == {b \in SeqsUpTo(DeclarationPaths, 1) : Parseable(b)}
FilesAt(path) ==
    {<<>>} \cup {<<[path |-> path, imports |-> <<ImportOf(S_react)>>, body |-> b]>> :
                    b \in CallBodies}

Called(f) == [file |-> f, at |-> "pathExists", result |-> <<>>, refs |-> {}]

\* The two calls, on a file under each path.
CallPairs == {<<Called(a), Called(b)>> : a \in FilesAt(PathA), b \in FilesAt(PathB)}

InitCalls ==
    /\ AnalyzersIdle
    /\ WatchIdle
    /\ ScanIdle
    /\ MergeIdle
    /\ calls \in CallPairs
    /\ frames = <<<<>>, <<>>>>
    /\ heap = 0

\* await fs.pathExists(absolutePath) settles: the call throws or goes on to read.
PathExistsSettles(c) ==
    /\ calls[c].at = "pathExists"
    /\ calls' = [calls EXCEPT ![c].at = IF calls[c].file = <<>> THEN "rejected"
                                        ELSE "readFile"]
    /\ UNCHANGED <<frames, heap, mergeVars, analyzerVars, scanVars, watchVars>>

\* await fs.readFile settles: parseCode runs and parseFile's promise resolves.
ReadFileSettles(c) ==
    /\ calls[c].at = "readFile"
    /\ calls' = [calls EXCEPT ![c].at = "parsed"]
    /\ UNCHANGED <<frames, heap, mergeVars, analyzerVars, scanVars, watchVars>>

\* analyzeFile resumes after await parseFile and runs to its return; every
\* record of the result is an object created during this run.
Continue(c) ==
    /\ calls[c].at = "parsed"
    /\ frames' = [frames EXCEPT ![c] = <<Traversed(calls[c].file[1], DeclareLocals(frames, c))>>]
    /\ heap' = heap + Len(frames'[c][1].components) + Len(frames'[c][1].functions)
    /\ calls' = [calls EXCEPT ![c].at = "returned",
                              ![c].result = <<FileAnalysis(calls[c].file[1], frames'[c][1])>>,
                              ![c].refs = (heap + 1)..heap']
    /\ UNCHANGED <<mergeVars, analyzerVars, scanVars, watchVars>>

NextCalls == \E c \in CallIds : PathExistsSettles(c) \/ ReadFileSettles(c) \/ Continue(c)
SpecCalls == InitCalls /\ [][NextCalls]_vars

\* What a call on f returns when no other call is in flight.
AnalyzedAlone(f) == FileAnalysis(f, Traversed(f, FreshLocals))

\* The call that takes the step, when one does.
Stepped(c) == calls'[c] # calls[c]

\* C23: two analyzeFile calls that interleave at their suspension points each
\* return what the call returns when run alone; a step of one call leaves the
\* other call's locals and result as they were, and no record object belongs
\* to both results.
C23_InterleavedCallsAreIndependent ==
    /\ [](\A c \in CallIds :
             /\ calls[c].at = "returned" => calls[c].result = <<AnalyzedAlone(calls[c].file[1])>>
             /\ calls[c].refs \cap calls[OtherCall(c)].refs = {})
    /\ [][\A c \in CallIds :
             Stepped(c) => /\ calls'[OtherCall(c)] = calls[OtherCall(c)]
                           /\ frames'[OtherCall(c)] = frames[OtherCall(c)]]_vars

\* Both calls returned records under the same name, the second call resuming
\* first.
C23_Witness ==
    /\ \A c \in CallIds :
          /\ calls[c].at = "returned"
          /\ Len(calls[c].result[1].components) = 1
          /\ calls[c].result[1].components[1].name = N_Foo
    /\ calls[2].refs = {1}
    /\ calls[1].refs = {2}


\* C24: within every component record the prop names are pairwise distinct,
\* whether the props parameter is destructured or a bare identifier with a
\* type literal.
C24_PropNamesAreDistinct ==
    (isComp /\ cpc \in {"hooks", "events", "done"}) =>
        \A i, j \in 1..Len(props) : i # j => props[i].name # props[j].name


\* The function-like node behind a declaration path: the declared function,
\* or the function a chain of recognized wrapper calls ends in; <<>> if none.
UnderlyingFunction(path) ==
    IF DeclaredFunction(path) # <<>> THEN DeclaredFunction(path)
    ELSE IF /\ ResolverCall(path) # <<>>
            /\ ChainEnd(ResolverCall(path)[1]) # <<>>
            /\ isFunctionLike(ChainEnd(ResolverCall(path)[1])[1])
    THEN ChainEnd(ResolverCall(path)[1])
    ELSE <<>>

\* C25: a visit adds a component record only for a path whose underlying
\* function-like node, declared plainly or reached through recognized wrapper
\* calls, is accepted by the component classifier; a binding whose underlying
\* function contains no JSX adds none.
C25_ComponentRecordsComeFromClassifiedFunctions ==
    [][(pc = "declarations" /\ components' # components) =>
          LET fn == UnderlyingFunction(file.body[cursor])
          IN  /\ fn # <<>>
              /\ isReactComponent(fn[1])
              /\ HasJSXAnywhere(fn[1])]_vars


\* Whether a declaration path sits directly under an export declaration.
DirectlyExported(path) ==
    IF path.node.type = "FunctionDeclaration" THEN path.parent \in ExportTypes
    ELSE path.grandparent \in ExportTypes

VisitingDeclaredFunction ==
    /\ pc = "declarations"
    /\ cursor <= Len(file.body)
    /\ DeclaredFunction(file.body[cursor]) # <<>>

\* C26: every function record of a returned analysis has isExported = TRUE;
\* the visit of a function-like binding that is no component and is not
\* directly exported adds no record at all, and the visit of a binding the
\* classifier accepts adds no function record.
C26_FunctionRecordsAreExported ==
    /\ [](Returned => \A k \in 1..Len(result[1].functions) :
                          result[1].functions[k].isExported = TRUE)
    /\ [][VisitingDeclaredFunction =>
             LET path == file.body[cursor]
                 fn == DeclaredFunction(path)[1]
             IN  /\ (~isReactComponent(fn) /\ ~DirectlyExported(path)) =>
                        (components' = components /\ functions' = functions)
                 /\ isReactComponent(fn) => functions' = functions]_vars

\* A returned analysis with one function record, of a file that also declares
\* a function that is neither a component nor exported.
C26_Witness ==
    /\ Returned
    /\ Len(result[1].functions) = 1
    /\ result[1].functions[1].isExported
    /\ \E i \in 1..Len(file.body) :
          /\ DeclaredFunction(file.body[i]) # <<>>
          /\ ~isReactComponent(DeclaredFunction(file.body[i])[1])
          /\ ~DirectlyExported(file.body[i])
          /\ BindingOf(file.body[i]) # <<>>
          /\ Named(result[1].functions, BindingOf(file.body[i])[1]) = {}
          /\ Named(result[1].components, BindingOf(file.body[i])[1]) = {}


(***************************************************************************)
(* fileUtils.ts 165-322: scanCommand.  glob returns every matched path     *)
(* once; the k-th entry of scanFiles is what the k-th path holds: its      *)
(* parsed source (<<>> for a file the parser rejects) and whether its test *)
(* file exists already.                                                    *)
(***************************************************************************)
\* export const Foo = ({ name }) => <div/>
ComponentSource ==
    [path |-> FilePath, imports |-> <<ImportOf(S_react)>>,
     body |-> <<Path(VariableDeclarator(Identifier(N_Foo), <<CompArrow>>),
                     "VariableDeclaration", "ExportNamedDeclaration")>>]

\* export function Bar() { return x; }
FunctionSource ==
    [path |-> FilePath, imports |-> <<>>,
     body |-> <<Path(FunctionDeclaration(<<Identifier(N_Bar)>>, <<>>, PlainBlock),
                     "ExportNamedDeclaration", "Program")>>]

\* A module that declares no function.
EmptySource == [path |-> FilePath, imports |-> <<>>, body |-> <<>>]

ScanEntries ==
    {[source |-> <<src>>, testExists |-> e] :
        src \in {ComponentSource, FunctionSource, EmptySource}, e \in BOOLEAN}
    \cup {[source |-> <<>>, testExists |-> FALSE]}

InitScan ==
    /\ AnalyzersIdle
    /\ WatchIdle
    /\ MergeIdle
    /\ CallsIdle
    /\ scanFiles \in SeqsUpTo(ScanEntries, MaxScan)
    /\ scanOptions \in {<<[dryRun |-> d, overwrite |-> o]>> : d, o \in BOOLEAN}
    /\ scanIndex = 0
    /\ scanResult = <<>>
    /\ spc = "glob"

\* fileUtils.ts 215-237: no file matched, or the counters are set up.
NewScanResult(total) ==
    [total |-> total, created |-> 0, updated |-> 0, skipped |-> 0, failed |-> 0,
     files |-> <<>>, errors |-> <<>>]

GlobReturns ==
    /\ spc = "glob"
    /\ scanResult' = <<NewScanResult(Len(scanFiles))>>
    /\ IF Len(scanFiles) = 0
       THEN spc' = "returned" /\ scanIndex' = scanIndex
       ELSE spc' = "loop" /\ scanIndex' = 1
    /\ UNCHANGED <<scanFiles, scanOptions, mergeVars, callVars, analyzerVars, watchVars>>

InLoop == spc = "loop" /\ scanIndex <= Len(scanFiles)
Current == scanFiles[scanIndex]
CurrentAnalysis == AnalyzedAlone(Current.source[1])
HasRecords(analysis) == Len(analysis.components) > 0 \/ Len(analysis.functions) > 0

NextFile(r) ==
    /\ scanResult' = <<r>>
    /\ scanIndex' = scanIndex + 1
    /\ UNCHANGED <<scanFiles, scanOptions, spc, mergeVars, callVars, analyzerVars, watchVars>>

\* fileUtils.ts 260-273: the preview is pushed to result.files.
DryRunResult(r, exists) ==
    [r EXCEPT !.files = Append(@, [code |-> NoCode,
                                   action |-> IF exists THEN "skipped" ELSE "created"])]

\* fileUtils.ts 281-294: the generated test is pushed and counted by its action.
GeneratedResult(r, testResult) ==
    LET pushed == [r EXCEPT !.files = Append(@, testResult)]
    IN  CASE testResult.action = "created" -> [pushed EXCEPT !.created = @ + 1]
          [] testResult.action = "updated" -> [pushed EXCEPT !.updated = @ + 1]
          [] OTHER -> [pushed EXCEPT !.skipped = @ + 1]

\* fileUtils.ts 296-301: analyzeFile threw; the loop goes on with the next file.
AnalysisThrows ==
    /\ InLoop
    /\ Current.source = <<>>
    /\ NextFile([scanResult[1] EXCEPT !.failed = @ + 1,
                                      !.errors = Append(@, scanIndex)])

\* fileUtils.ts 253-257: no components and no functions.
NothingFound ==
    /\ InLoop
    /\ Current.source # <<>>
    /\ ~HasRecords(CurrentAnalysis)
    /\ NextFile([scanResult[1] EXCEPT !.skipped = @ + 1])

DryRunPreview ==
    /\ InLoop
    /\ Current.source # <<>>
    /\ HasRecords(CurrentAnalysis)
    /\ scanOptions[1].dryRun
    /\ NextFile(DryRunResult(scanResult[1], Current.testExists))

GenerateForFile ==
    /\ InLoop
    /\ Current.source # <<>>
    /\ HasRecords(CurrentAnalysis)
    /\ ~scanOptions[1].dryRun
    /\ NextFile(GeneratedResult(scanResult[1],
                                generateTest(CurrentAnalysis, Current.testExists,
                                             scanOptions[1].overwrite)))

\* fileUtils.ts 302-321: the loop ends and the result is returned.
ScanReturns ==
    /\ spc = "loop"
    /\ scanIndex > Len(scanFiles)
    /\ spc' = "returned"
    /\ UNCHANGED <<scanFiles, scanOptions, scanIndex, scanResult, mergeVars, callVars,
                   analyzerVars, watchVars>>

NextScan ==
    \/ GlobReturns
    \/ AnalysisThrows
    \/ NothingFound
    \/ DryRunPreview
    \/ GenerateForFile
    \/ ScanReturns

SpecScan == InitScan /\ [][NextScan]_vars

ScanReturned == spc = "returned"
Counted(r) == r.created + r.updated + r.skipped + r.failed
Unparseable == {k \in 1..Len(scanFiles) : scanFiles[k].source = <<>>}
WithoutRecords ==
    {k \in 1..Len(scanFiles) :
        scanFiles[k].source # <<>> /\ ~HasRecords(AnalyzedAlone(scanFiles[k].source[1]))}

\* C27: when scanCommand returns, created + updated + skipped + failed = total
\* in normal and in dry-run mode alike; every file without components and
\* functions is among the skipped, and every file whose analysis throws is
\* counted as failed, the files after it being processed all the same.
C27_CountersAccountForEveryFile ==
    ScanReturned =>
        LET r == scanResult[1]
        IN  /\ r.total = Len(scanFiles)
            /\ Counted(r) = r.total
            /\ r.skipped >= Cardinality(WithoutRecords)
            /\ r.failed = Cardinality(Unparseable)


(***************************************************************************)
(* init.ts 287-416: watchCommand.  Time advances in ticks, the 500 ms of   *)
(* the debounce timer being TicksPerDelay ticks.  The runtime runs a timer *)
(* that is due before it delivers further watcher events or lets time     *)
(* pass; a processFile execution, which awaits the file system, may take   *)
(* any time.                                                               *)
(***************************************************************************)
InitWatch ==
    /\ AnalyzersIdle
    /\ MergeIdle
    /\ CallsIdle
    /\ ScanIdle
    /\ watching = TRUE
    /\ now = 0
    /\ timers = {}
    /\ timerSeq = 0
    /\ pendingFiles = NewMap
    /\ running = {}
    /\ received = <<>>
    /\ started = <<>>

\* clearTimeout that leaves the timer live.
ClearTimeout_ignored(live, id) == live

\* clearTimeout(existing)
ClearTimeout(live, id) == {t \in live : t.id # id}

\* setTimeout(callback, 500) at time: the new live timer.
SetTimeout(id, path, time) == [id |-> id, path |-> path, due |-> time + TicksPerDelay]

\* init.ts 373-387: debouncedProcess(filePath).
DebouncedProcess(path) ==
    LET existing == pendingFiles[path]
        cleared == IF existing # <<>> THEN ClearTimeout(timers, existing[1]) ELSE timers
    IN  /\ timers' = cleared \cup {SetTimeout(timerSeq + 1, path, now)}
        /\ timerSeq' = timerSeq + 1
        /\ pendingFiles' = [pendingFiles EXCEPT ![path] = <<timerSeq + 1>>]

NoTimerDue == \A t \in timers : t.due > now

Receives(path) ==
    /\ watching
    /\ Len(received) < MaxEvents
    /\ NoTimerDue
    /\ received' = Append(received, [path |-> path, time |-> now])
    /\ DebouncedProcess(path)
    /\ UNCHANGED <<watching, now, running, started, mergeVars, callVars, scanVars,
                   analyzerVars>>

\* watcher.on('add', ...) and watcher.on('change', ...)
OnAdd == \E path \in WatchedPaths : Receives(path)
OnChange == \E path \in WatchedPaths : Receives(path)

\* The timer's callback: pendingFiles.delete(filePath); processFile(filePath),
\* which runs up to its first await.
TimerFires ==
    /\ \E t \in timers :
          /\ t.due <= now
          /\ timers' = timers \ {t}
          /\ pendingFiles' = [pendingFiles EXCEPT ![t.path] = <<>>]
          /\ running' = running \cup {[id |-> t.id, path |-> t.path, at |-> "analyzeFile"]}
          /\ started' = Append(started, [path |-> t.path, time |-> now])
    /\ UNCHANGED <<watching, now, timerSeq, received, mergeVars, callVars, scanVars,
                   analyzerVars>>

Tick ==
    /\ watching
    /\ now < MaxTime
    /\ NoTimerDue
    /\ now' = now + 1
    /\ UNCHANGED <<watching, timers, timerSeq, pendingFiles, running, received, started,
                   mergeVars, callVars, scanVars, analyzerVars>>

\* await analyzeFile settles with records: processFile goes on to generateTest.
AnalysisSettles ==
    /\ \E run \in running :
          /\ run.at = "analyzeFile"
          /\ running' = (running \ {run}) \cup {[run EXCEPT !.at = "generateTest"]}
    /\ UNCHANGED <<watching, now, timers, timerSeq, pendingFiles, received, started,
                   mergeVars, callVars, scanVars, analyzerVars>>

\* await analyzeFile settles without records, or throws: processFile returns.
NothingToGenerate ==
    /\ \E run \in running :
          /\ run.at = "analyzeFile"
          /\ running' = running \ {run}
    /\ UNCHANGED <<watching, now, timers, timerSeq, pendingFiles, received, started,
                   mergeVars, callVars, scanVars, analyzerVars>>

\* await generateTest settles: the test file is written or kept, processFile returns.
GenerateSettles ==
    /\ \E run \in running :
          /\ run.at = "generateTest"
          /\ running' = running \ {run}
    /\ UNCHANGED <<watching, now, timers, timerSeq, pendingFiles, received, started,
                   mergeVars, callVars, scanVars, analyzerVars>>

NextWatch ==
    \/ OnAdd
    \/ OnChange
    \/ TimerFires
    \/ Tick
    \/ AnalysisSettles
    \/ NothingToGenerate
    \/ GenerateSettles

SpecWatch == InitWatch /\ [][NextWatch]_vars

LiveTimers(path) == {t \in timers : t.path = path}

\* The event ends its burst: no later event for its path came less than the
\* delay after it.
LastOfBurst(j) ==
    ~\E i \in (j + 1)..Len(received) :
        /\ received[i].path = received[j].path
        /\ received[i].time < received[j].time + TicksPerDelay

CallsAt(path, time) == {k \in 1..Len(started) : started[k] = [path |-> path, time |-> time]}

C29_OneRunInFlightPerPath ==
    \A r1, r2 \in running : r1.path = r2.path => r1 = r2

====
